---- MODULE Spec2Model ----
(***************************************************************************)
(* Verification model of the ingestion core of derivatives_tracking:       *)
(*   - RateLimiter (app/utils/rate_limiter.py): per-service spacing gate   *)
(*     and the with_retry wrapper;                                        *)
(*   - ETLPipeline / ETLScheduler (app/etl): ingestion cycles and the      *)
(*     select-then-insert/update store writes.                            *)
(* Time is counted in ticks of 0.1 s.  Code between two awaits runs        *)
(* without interruption (asyncio), so each action is one such segment.     *)
(***************************************************************************)
EXTENDS Integers, Sequences, FiniteSets, TLC

(* ------------------------------ bounds -------------------------------- *)
MaxTime == 18
StartTime == 10
MaxCalls == 2
MaxRetriesBound == 1
MaxCatalog == 2
MaxBatch == 1
MaxPoints == 2
MaxCycles == 2
MaxServiceTime == 4
MaxPrices == 7
MaxStoreCalls == 2
MaxAdapterCalls == 2
MaxCmcRequests == 32

(* --------------------------- program constants ------------------------ *)
TicksPerMinute == 600
MinDelay == 1
RetryStatusCodes == {429, 500, 502, 503, 504}

Tasks == {1, 2}

(* inputs of configure_limit; durations in ticks *)
CallsPerMinuteSet == {200, 300}
BaseDelaySet == {4}
MaxDelaySet == {6}
JitterPct == 25

(* what one invocation of the wrapped request function can produce *)
Outcomes ==
    { [kind |-> "response", status_code |-> 200, retry_after |-> 0, exc |-> "none"],
      [kind |-> "response", status_code |-> 404, retry_after |-> 0, exc |-> "none"],
      [kind |-> "response", status_code |-> 429, retry_after |-> 0, exc |-> "none"],
      [kind |-> "response", status_code |-> 429, retry_after |-> 30, exc |-> "none"],
      [kind |-> "raise", status_code |-> 0, retry_after |-> 0, exc |-> "Timeout"],
      [kind |-> "raise", status_code |-> 0, retry_after |-> 0, exc |-> "ValueError"] }
NoOutcome == [kind |-> "none", status_code |-> 0, retry_after |-> 0, exc |-> "none"]

VARIABLES
    now,            \* time.time(), in ticks
    rate_limits,    \* RateLimiter.rate_limits[service_name]
    concurrent,     \* whether callers may overlap their calls
    pc,             \* per task: position inside with_retry.wrapper
    attempt,        \* per task: loop variable of the retry loop
    wake,           \* per task: time at which the pending asyncio.sleep ends
    last_outcome,   \* per task: what the last invocation of func produced
    all_retryable,  \* per task: every invocation of this call failed retryably
    first_dispatch, \* time of the first invocation of func (0: none yet)
    prev_dispatch,  \* time of the invocation before the latest one (0: none)
    n_dispatched,   \* number of invocations of func so far
    calls_started   \* number of wrapper calls begun so far

rl_vars == <<now, rate_limits, concurrent, pc, attempt, wake, last_outcome,
             all_retryable, first_dispatch, prev_dispatch, n_dispatched, calls_started>>

VARIABLES
    db_assets,      \* committed rows of table assets (their ids)
    db_metrics,     \* committed rows of table asset_metrics: key -> values of the rows
    epc,            \* per runner: position inside the pipeline
    idx,            \* per runner: loop index of the running loop
    all_assets,     \* per runner: fetch_and_store_assets.all_assets
    assets,         \* per runner: fetch_and_store_metrics.assets
    all_metrics,    \* per runner: the metrics list handed to _store_metrics
    existing,       \* per runner: result of the last select in _store_metrics
    txn_assets,     \* per runner: asset rows written in the open transaction
    txn_ins,        \* per runner: metric rows inserted in the open transaction
    txn_upd,        \* per runner: metric updates issued in the open transaction
    tried,          \* per runner: adapters and assets the fetch loops have attempted
    failures,       \* per runner: adapters and assets whose fetch failed
    any_failed,     \* per runner: some adapter or asset failed during this cycle
    runs_started    \* number of cycles, syncs and store calls begun so far

etl_vars == <<db_assets, db_metrics, epc, idx, all_assets, assets, all_metrics, existing,
              txn_assets, txn_ins, txn_upd, tried, failures, any_failed, runs_started>>

VARIABLES
    spc,            \* position inside CoinMarketCapService.sync_assets_to_db
    sync_assets,    \* sync_assets_to_db.assets_to_create
    sync_metrics    \* sync_assets_to_db.metrics_to_create

sync_vars == <<spc, sync_assets, sync_metrics>>

VARIABLES
    backend,        \* the cache class in use
    cache,          \* key -> stored entry (self.cache / the cache table / the Redis keys)
    last_call       \* the latest batch operation or read-through call and what it returned

cache_vars == <<backend, cache, last_call>>

VARIABLES
    risk_input,     \* the asset row and history handed to calculate_asset_risk_score
    risk_result,    \* what calculate_asset_risk_score returned for it
    risk_pc,        \* position inside update_asset_risk_scores
    risk_idx,       \* loop index of calculate_risk_scores
    risk_scores,    \* calculate_risk_scores.risk_scores
    risk_failed,    \* assets whose scoring raised in this run
    db_risk         \* the risk_score the asset rows carry

risk_vars == <<risk_input, risk_result, risk_pc, risk_idx, risk_scores, risk_failed, db_risk>>

VARIABLES
    ad_log          \* the calls made on adapters and workers so far, with their upstream requests

ad_vars == <<ad_log>>

VARIABLES
    fb_table,       \* cache.supabase_cache.SupabaseCache: the row of the key in table "cache"
    memory_cache,   \* its self.memory_cache entry for the key
    fb_latest,      \* what the latest successful set or delete left for the key
    fb_result       \* what the get just made returned

fb_vars == <<fb_table, memory_cache, fb_latest, fb_result>>

VARIABLES
    cmc_sent,       \* CoinMarketCapAdapter: number of requests recorded in request_timestamps so far
    cmc_old,        \* how many of them are older than RATE_LIMIT_WINDOW by now
    cmc_pc,         \* per task: position inside _request / _wait_for_rate_limit
    cmc_target      \* per task: the oldest timestamp whose leaving the window it sleeps for

cmc_vars == <<cmc_sent, cmc_old, cmc_pc, cmc_target>>

VARIABLES
    running,            \* DydxWorker.running
    websocket,          \* the connection: "open" or None
    subscribed_markets, \* DydxWorker.subscribed_markets
    reconnect_delay,    \* DydxWorker.reconnect_delay, seconds
    ws_sent,            \* markets whose subscribe messages were sent on the open connection
    listener,           \* the listen() task: "none", "listening" or "reconnecting"
    dydx_cache,         \* keys <<channel, market>> the worker's InMemoryCache holds
    processed           \* the record built from the last channel_data message

dx_vars == <<running, websocket, subscribed_markets, reconnect_delay, ws_sent, listener,
             dydx_cache, processed>>

vars == <<rl_vars, etl_vars, sync_vars, cache_vars, risk_vars, ad_vars, fb_vars, cmc_vars, dx_vars>>

(* ------------------------------ helpers ------------------------------- *)
Min(a, b) == IF a <= b THEN a ELSE b
Max(a, b) == IF a >= b THEN a ELSE b
RECURSIVE Pow2(_)
Pow2(n) == IF n <= 0 THEN 1 ELSE 2 * Pow2(n - 1)

(* RateLimiter.configure_limit: the entry stored for a service *)
configure_limit(calls_per_minute, max_retries, base_delay, max_delay, jitter) ==
    [calls_per_minute |-> calls_per_minute,
     interval         |-> TicksPerMinute \div calls_per_minute,
     last_call_time   |-> 0,
     max_retries      |-> max_retries,
     base_delay       |-> base_delay,
     max_delay        |-> max_delay,
     jitter           |-> jitter]

(* RateLimiter.calculate_retry_delay: the delays random.uniform can yield *)
calculate_retry_delay(config, att) ==
    LET delay == Min(config.max_delay, config.base_delay * Pow2(att))
    IN  { Max(MinDelay, d) : d \in { x \in 0..(2 * delay) :
            /\ 100 * x >= 100 * delay - config.jitter * delay
            /\ 100 * x <= 100 * delay + config.jitter * delay } }

IsRetryableStatus(o) == o.kind = "response" /\ o.status_code \in RetryStatusCodes
RetryableFailure(o) == IsRetryableStatus(o) \/ (o.kind = "raise" /\ o.exc = "Timeout")
NonRetryableFailure(o) ==
    \/ o.kind = "raise" /\ o.exc = "ValueError"
    \/ o.kind = "response" /\ o.status_code >= 400 /\ o.status_code \notin RetryStatusCodes

Busy(t) == pc[t] # "idle"

(* ------------------------------- Init --------------------------------- *)
RLIdle(conc) ==
    /\ now = StartTime
    /\ concurrent = conc
    /\ pc = [t \in Tasks |-> "idle"]
    /\ attempt = [t \in Tasks |-> 0]
    /\ wake = [t \in Tasks |-> 0]
    /\ last_outcome = [t \in Tasks |-> NoOutcome]
    /\ all_retryable = [t \in Tasks |-> TRUE]
    /\ first_dispatch = 0
    /\ prev_dispatch = 0
    /\ n_dispatched = 0
    /\ calls_started = 0

RLInit(conc) ==
    /\ \E cpm \in CallsPerMinuteSet, mr \in 0..MaxRetriesBound,
          bd \in BaseDelaySet, md \in MaxDelaySet :
          rate_limits = configure_limit(cpm, mr, bd, md, JitterPct)
    /\ RLIdle(conc)

(* func is invoked now: the dispatch *)
dispatch(t) ==
    /\ pc' = [pc EXCEPT ![t] = "in_flight"]
    /\ first_dispatch' = IF n_dispatched = 0 THEN now ELSE first_dispatch
    /\ prev_dispatch' = IF n_dispatched = 0 THEN 0 ELSE rate_limits.last_call_time
    /\ n_dispatched' = n_dispatched + 1

(* wait_for_rate_limit with the sleep computed from the elapsed time       *)
(* instead of the remaining time                                          *)
wait_for_rate_limit_elapsed(t) ==
    LET time_since_last_call == now - rate_limits.last_call_time
    IN  IF time_since_last_call < rate_limits.interval
        THEN /\ pc' = [pc EXCEPT ![t] = "rate_sleep"]
             /\ wake' = [wake EXCEPT ![t] = now + time_since_last_call]
             /\ UNCHANGED <<rate_limits, first_dispatch, prev_dispatch, n_dispatched>>
        ELSE /\ rate_limits' = [rate_limits EXCEPT !.last_call_time = now]
             /\ dispatch(t)
             /\ UNCHANGED wake

(* ------------------- RateLimiter.wait_for_rate_limit ------------------ *)
(* First segment: read the clock and last_call_time; either start the     *)
(* sleep, or record the call time and go on to invoke func.               *)
wait_for_rate_limit(t) ==
    LET time_since_last_call == now - rate_limits.last_call_time
    IN  IF time_since_last_call < rate_limits.interval
        THEN /\ pc' = [pc EXCEPT ![t] = "rate_sleep"]
             /\ wake' = [wake EXCEPT ![t] = now + (rate_limits.interval - time_since_last_call)]
             /\ UNCHANGED <<rate_limits, first_dispatch, prev_dispatch, n_dispatched>>
        ELSE /\ rate_limits' = [rate_limits EXCEPT !.last_call_time = now]
             /\ dispatch(t)
             /\ UNCHANGED wake

(* Second segment: asyncio.sleep(wait_time) returns; record the call time *)
(* and go on to invoke func.                                              *)
wait_for_rate_limit_resume(t) ==
    /\ now >= wake[t]
    /\ rate_limits' = [rate_limits EXCEPT !.last_call_time = now]
    /\ dispatch(t)
    /\ wake' = [wake EXCEPT ![t] = 0]

(* with_retry.wrapper is called: read the config, enter the loop; when   *)
(* range(max_retries + 1) is empty the loop body never runs and the       *)
(* RuntimeError after the loop is raised                                  *)
Call(t) ==
    /\ pc[t] = "idle"
    /\ calls_started < MaxCalls
    /\ concurrent \/ \A u \in Tasks : ~Busy(u)
    /\ IF rate_limits.max_retries + 1 > 0
       THEN pc' = [pc EXCEPT ![t] = "loop"] /\ UNCHANGED last_outcome
       ELSE /\ pc' = [pc EXCEPT ![t] = "raised"]
            /\ last_outcome' = [last_outcome EXCEPT ![t] =
                                  [NoOutcome EXCEPT !.kind = "raise", !.exc = "RuntimeError"]]
    /\ calls_started' = calls_started + 1
    /\ UNCHANGED <<now, rate_limits, concurrent, attempt, wake,
                   all_retryable, first_dispatch, prev_dispatch, n_dispatched>>
    /\ UNCHANGED <<etl_vars, sync_vars, cache_vars, risk_vars, ad_vars, fb_vars, cmc_vars, dx_vars>>

(* top of a loop iteration: wait_for_rate_limit up to its first await *)
EnterAttempt(t) ==
    /\ pc[t] = "loop"
    /\ wait_for_rate_limit(t)
    /\ UNCHANGED <<now, concurrent, attempt, last_outcome, all_retryable, calls_started>>
    /\ UNCHANGED <<etl_vars, sync_vars, cache_vars, risk_vars, ad_vars, fb_vars, cmc_vars, dx_vars>>

RateSleepDone(t) ==
    /\ pc[t] = "rate_sleep"
    /\ wait_for_rate_limit_resume(t)
    /\ UNCHANGED <<now, concurrent, attempt, last_outcome, all_retryable, calls_started>>
    /\ UNCHANGED <<etl_vars, sync_vars, cache_vars, risk_vars, ad_vars, fb_vars, cmc_vars, dx_vars>>

(* whether the wrapper goes on to another attempt after outcome o *)
will_retry(o, att, max_retries) ==
    IF o.kind = "response"
    THEN IsRetryableStatus(o) /\ att < max_retries
    ELSE att < max_retries

(* the sleep the wrapper takes before the next attempt *)
retry_sleep(o, config, att) == calculate_retry_delay(config, att)

(* what the wrapper does with the outcome of func *)
handle_outcome(t, o) ==
    IF will_retry(o, attempt[t], rate_limits.max_retries)
    THEN \E delay \in retry_sleep(o, rate_limits, attempt[t]) :
            /\ pc' = [pc EXCEPT ![t] = "backoff"]
            /\ wake' = [wake EXCEPT ![t] = now + delay]
    ELSE /\ pc' = [pc EXCEPT ![t] = IF o.kind = "response" THEN "returned" ELSE "raised"]
         /\ UNCHANGED wake

(* func completes: it returns a response or raises *)
Respond(t) ==
    /\ pc[t] = "in_flight"
    /\ \E o \in Outcomes :
          /\ last_outcome' = [last_outcome EXCEPT ![t] = o]
          /\ all_retryable' = [all_retryable EXCEPT ![t] = @ /\ RetryableFailure(o)]
          /\ handle_outcome(t, o)
    /\ UNCHANGED <<now, rate_limits, concurrent, attempt,
                   first_dispatch, prev_dispatch, n_dispatched, calls_started>>
    /\ UNCHANGED <<etl_vars, sync_vars, cache_vars, risk_vars, ad_vars, fb_vars, cmc_vars, dx_vars>>

(* asyncio.sleep(delay) returns: next loop iteration *)
BackoffDone(t) ==
    /\ pc[t] = "backoff"
    /\ now >= wake[t]
    /\ attempt' = [attempt EXCEPT ![t] = @ + 1]
    /\ pc' = [pc EXCEPT ![t] = "loop"]
    /\ wake' = [wake EXCEPT ![t] = 0]
    /\ last_outcome' = [last_outcome EXCEPT ![t] = NoOutcome]
    /\ UNCHANGED <<now, rate_limits, concurrent, all_retryable,
                   first_dispatch, prev_dispatch, n_dispatched, calls_started>>
    /\ UNCHANGED <<etl_vars, sync_vars, cache_vars, risk_vars, ad_vars, fb_vars, cmc_vars, dx_vars>>

(* the caller takes the result (or the exception) *)
Finish(t) ==
    /\ pc[t] \in {"returned", "raised"}
    /\ pc' = [pc EXCEPT ![t] = "idle"]
    /\ attempt' = [attempt EXCEPT ![t] = 0]
    /\ last_outcome' = [last_outcome EXCEPT ![t] = NoOutcome]
    /\ all_retryable' = [all_retryable EXCEPT ![t] = TRUE]
    /\ UNCHANGED <<now, rate_limits, concurrent, wake,
                   first_dispatch, prev_dispatch, n_dispatched, calls_started>>
    /\ UNCHANGED <<etl_vars, sync_vars, cache_vars, risk_vars, ad_vars, fb_vars, cmc_vars, dx_vars>>

Tick ==
    /\ now < MaxTime
    /\ now' = now + 1
    /\ UNCHANGED <<rate_limits, concurrent, pc, attempt, wake, last_outcome,
                   all_retryable, first_dispatch, prev_dispatch, n_dispatched, calls_started>>
    /\ UNCHANGED <<etl_vars, sync_vars, cache_vars, risk_vars, ad_vars, fb_vars, cmc_vars, dx_vars>>

RLNext ==
    \/ \E t \in Tasks : Call(t)
    \/ \E t \in Tasks : EnterAttempt(t)
    \/ \E t \in Tasks : RateSleepDone(t)
    \/ \E t \in Tasks : Respond(t)
    \/ \E t \in Tasks : BackoffDone(t)
    \/ \E t \in Tasks : Finish(t)
    \/ Tick

(* ======================= ETLPipeline and the store ==================== *)
Runners == {"scheduled", "manual"}

(* ETLPipeline.adapters, in insertion order, and each adapter's catalog *)
AdapterNames == <<"circle", "tether", "ondo", "matrixdock">>
asset_metadata(a) ==
    CASE a = "circle"     -> <<"usdc">>
      [] a = "tether"     -> <<"usdt">>
      [] a = "ondo"       -> <<"ousd", "ohmydai", "ousg">>
      [] a = "matrixdock" -> <<"stbt", "mtbt", "ltbt">>

(* The adapters of the model, one of each kind: tether is coded as circle *)
(* is and matrixdock as ondo is.                                         *)
Registry == SelectSeq(AdapterNames, LAMBDA a : a \in {"circle", "ondo"})
Catalog(a) == SubSeq(asset_metadata(a), 1, Min(MaxCatalog, Len(asset_metadata(a))))

RECURSIVE Flatten(_), request_budget(_, _)
Flatten(ss) == IF ss = <<>> THEN <<>> ELSE Head(ss) \o Flatten(Tail(ss))
AssetOrder == Flatten([i \in 1..Len(Registry) |-> Catalog(Registry[i])])
AssetIds == {AssetOrder[i] : i \in 1..Len(AssetOrder)}

MetricTypes == {"price_usd"}
Timestamps == {1}
Values == {1, 2}
Quotes == {1}
(* ids of the coins a CoinMarketCap listing can carry: str(coin["id"]) *)
CmcIds == {"1"}
Keys == [asset_id : AssetIds \cup CmcIds, metric_type : MetricTypes, timestamp : Timestamps]
KeyOf(p) == [asset_id |-> p.asset_id, metric_type |-> p.metric_type, timestamp |-> p.timestamp]
PointsOf(ids, vals) ==
    [asset_id : ids, metric_type : MetricTypes, timestamp : Timestamps, value : vals]
SeqsUpTo(S, n) == UNION {[1..m -> S] : m \in 0..n}
NoUpdate == [n |-> 0, value |-> 0]

RECURSIVE Subsequences(_)
Subsequences(q) ==
    IF q = <<>> THEN {<<>>}
    ELSE LET rest == Subsequences(Tail(q))
         IN  rest \cup {<<Head(q)>> \o t : t \in rest}

(* <adapter>.list_assets: circle and tether fetch their one asset or raise; *)
(* ondo and matrixdock skip the assets whose fetch fails and never raise.   *)
list_assets(a) ==
    IF a \in {"circle", "tether"}
    THEN {[raised |-> FALSE, assets |-> Catalog(a)], [raised |-> TRUE, assets |-> <<>>]}
    ELSE {[raised |-> FALSE, assets |-> q] : q \in Subsequences(Catalog(a))}

(* ETLPipeline._get_adapter_for_asset *)
get_adapter_for_asset(asset_id) ==
    IF asset_id \in {"usdc"} THEN "circle"
    ELSE IF asset_id \in {"usdt"} THEN "tether"
    ELSE IF asset_id \in {"ousd", "ohmydai", "ousg"} THEN "ondo"
    ELSE IF asset_id \in {"stbt", "mtbt", "ltbt"} THEN "matrixdock"
    ELSE "none"

(* <adapter>.get_asset_metrics: raises, or returns points labelled with the *)
(* adapter's asset (circle and tether hard-code "usdc" / "usdt").           *)
get_asset_metrics(a, asset_id) ==
    LET label == IF a = "circle" THEN "usdc" ELSE IF a = "tether" THEN "usdt" ELSE asset_id
    IN  {[raised |-> TRUE, metrics |-> <<>>]}
        \cup {[raised |-> FALSE, metrics |-> b] : b \in SeqsUpTo(PointsOf({label}, Quotes), MaxBatch)}

(* the metrics loop driven by the adapters' catalogs instead of the rows *)
select_assets_catalog == AssetOrder

(* select(Asset): the committed asset rows *)
select_assets == SelectSeq(AssetOrder, LAMBDA a : a \in db_assets)

(* a failure leaves the loop *)
next_index_break(i, raised) == IF raised THEN i + 100 ELSE i + 1

(* the loop goes on to the next element whether or not this one failed *)
next_index(i, raised) == i + 1

Running(r) == epc[r] # "idle"

RunnersIdle ==
    /\ db_metrics = [k \in Keys |-> <<>>]
    /\ epc = [r \in Runners |-> "idle"]
    /\ idx = [r \in Runners |-> 0]
    /\ all_assets = [r \in Runners |-> <<>>]
    /\ assets = [r \in Runners |-> <<>>]
    /\ all_metrics = [r \in Runners |-> <<>>]
    /\ existing = [r \in Runners |-> FALSE]
    /\ txn_assets = [r \in Runners |-> {}]
    /\ txn_ins = [r \in Runners |-> [k \in Keys |-> <<>>]]
    /\ txn_upd = [r \in Runners |-> [k \in Keys |-> NoUpdate]]
    /\ tried = [r \in Runners |-> {}]
    /\ failures = [r \in Runners |-> {}]
    /\ any_failed = [r \in Runners |-> FALSE]
    /\ runs_started = 0

(* an empty store *)
ETLIdle == db_assets = {} /\ RunnersIdle

(* whether runner r may begin now: at any time when cycles may overlap;   *)
(* otherwise the scheduler's job is the only trigger, and APScheduler     *)
(* runs one instance of a job at a time                                   *)
MayBegin(r) == concurrent \/ (r = "scheduled" /\ \A u \in Runners : ~Running(u))

(* a trigger fires: run_full_pipeline begins (scheduler job or run_now) *)
Trigger(r) ==
    /\ epc[r] = "idle"
    /\ runs_started < MaxCycles
    /\ MayBegin(r)
    /\ epc' = [epc EXCEPT ![r] = "fetch_assets"]
    /\ idx' = [idx EXCEPT ![r] = 1]
    /\ runs_started' = runs_started + 1
    /\ UNCHANGED <<db_assets, db_metrics, all_assets, assets, all_metrics, existing,
                   txn_assets, txn_ins, txn_upd, tried, failures>>
    /\ UNCHANGED <<any_failed, rl_vars, sync_vars, cache_vars, risk_vars, ad_vars, fb_vars, cmc_vars, dx_vars>>

(* fetch_and_store_assets: one iteration of the loop over the adapters *)
FetchAssets(r) ==
    /\ epc[r] = "fetch_assets"
    /\ LET a == Registry[idx[r]]
       IN  \E o \in list_assets(a) :
             /\ all_assets' = [all_assets EXCEPT ![r] = @ \o o.assets]
             /\ tried' = [tried EXCEPT ![r] = @ \cup {a}]
             /\ failures' = [failures EXCEPT ![r] = IF o.raised THEN @ \cup {a} ELSE @]
             /\ any_failed' = [any_failed EXCEPT ![r] = @ \/ o.raised]
             /\ idx' = [idx EXCEPT ![r] = next_index(@, o.raised)]
             /\ epc' = [epc EXCEPT ![r] =
                          IF idx'[r] > Len(Registry) THEN "open_assets" ELSE "fetch_assets"]
    /\ UNCHANGED <<db_assets, db_metrics, assets, all_metrics, existing,
                   txn_assets, txn_ins, txn_upd, runs_started>>
    /\ UNCHANGED <<rl_vars, sync_vars, cache_vars, risk_vars, ad_vars, fb_vars, cmc_vars, dx_vars>>

(* async with get_db() as db, at the head of _store_assets *)
OpenAssets(r) ==
    /\ epc[r] = "open_assets"
    /\ \E ok \in BOOLEAN :
          /\ epc' = [epc EXCEPT ![r] = IF ~ok THEN "raised"
                                       ELSE IF all_assets[r] = <<>> THEN "commit_assets"
                                       ELSE "store_assets"]
          /\ all_assets' = [all_assets EXCEPT ![r] = IF ok THEN @ ELSE <<>>]
    /\ idx' = [idx EXCEPT ![r] = 1]
    /\ UNCHANGED <<db_assets, db_metrics, assets, all_metrics, existing,
                   txn_assets, txn_ins, txn_upd, tried, failures, runs_started>>
    /\ UNCHANGED <<any_failed, rl_vars, sync_vars, cache_vars, risk_vars, ad_vars, fb_vars, cmc_vars, dx_vars>>

(* _store_assets: one iteration; a failing statement is logged and skipped *)
StoreAsset(r) ==
    /\ epc[r] = "store_assets"
    /\ \E ok \in BOOLEAN :
          txn_assets' = [txn_assets EXCEPT ![r] =
                           IF ok THEN @ \cup {all_assets[r][idx[r]]} ELSE @]
    /\ idx' = [idx EXCEPT ![r] = @ + 1]
    /\ epc' = [epc EXCEPT ![r] =
                 IF idx[r] + 1 > Len(all_assets[r]) THEN "commit_assets" ELSE "store_assets"]
    /\ UNCHANGED <<db_assets, db_metrics, all_assets, assets, all_metrics, existing,
                   txn_ins, txn_upd, tried, failures, runs_started>>
    /\ UNCHANGED <<any_failed, rl_vars, sync_vars, cache_vars, risk_vars, ad_vars, fb_vars, cmc_vars, dx_vars>>

(* a commit that leaves in the table only the rows of the transaction *)
committed_assets_replace(r) == txn_assets[r]

(* the asset rows once the transaction of _store_assets has committed:    *)
(* the statements are SELECT, UPDATE and INSERT, none deletes a row       *)
committed_assets(r) == db_assets \cup txn_assets[r]

(* _store_assets: db.commit() *)
CommitAssets(r) ==
    /\ epc[r] = "commit_assets"
    /\ \E ok \in BOOLEAN :
          /\ db_assets' = IF ok THEN committed_assets(r) ELSE db_assets
          /\ epc' = [epc EXCEPT ![r] = IF ok THEN "load_assets" ELSE "raised"]
    /\ txn_assets' = [txn_assets EXCEPT ![r] = {}]
    /\ all_assets' = [all_assets EXCEPT ![r] = <<>>]
    /\ idx' = [idx EXCEPT ![r] = 0]
    /\ UNCHANGED <<db_metrics, assets, all_metrics, existing,
                   txn_ins, txn_upd, tried, failures, runs_started>>
    /\ UNCHANGED <<any_failed, rl_vars, sync_vars, cache_vars, risk_vars, ad_vars, fb_vars, cmc_vars, dx_vars>>

(* fetch_and_store_metrics: read the assets from the database *)
LoadAssets(r) ==
    /\ epc[r] = "load_assets"
    /\ \E ok \in BOOLEAN :
          /\ assets' = [assets EXCEPT ![r] = IF ok THEN select_assets ELSE <<>>]
          /\ epc' = [epc EXCEPT ![r] = IF ~ok THEN "raised"
                                       ELSE IF select_assets = <<>> THEN "open_metrics"
                                       ELSE "fetch_metrics"]
    /\ idx' = [idx EXCEPT ![r] = 1]
    /\ UNCHANGED <<db_assets, db_metrics, all_assets, all_metrics, existing,
                   txn_assets, txn_ins, txn_upd, tried, failures, runs_started>>
    /\ UNCHANGED <<any_failed, rl_vars, sync_vars, cache_vars, risk_vars, ad_vars, fb_vars, cmc_vars, dx_vars>>

(* fetch_and_store_metrics: one iteration of the loop over the assets *)
FetchMetrics(r) ==
    /\ epc[r] = "fetch_metrics"
    /\ LET asset == assets[r][idx[r]]
           a == get_adapter_for_asset(asset)
       IN  IF a = "none"
           THEN /\ idx' = [idx EXCEPT ![r] = @ + 1]
                /\ UNCHANGED <<all_metrics, tried, failures, any_failed>>
           ELSE \E o \in get_asset_metrics(a, asset) :
                  /\ all_metrics' = [all_metrics EXCEPT ![r] = @ \o o.metrics]
                  /\ tried' = [tried EXCEPT ![r] = @ \cup {asset}]
                  /\ failures' = [failures EXCEPT ![r] = IF o.raised THEN @ \cup {asset} ELSE @]
                  /\ any_failed' = [any_failed EXCEPT ![r] = @ \/ o.raised]
                  /\ idx' = [idx EXCEPT ![r] = next_index(@, o.raised)]
    /\ epc' = [epc EXCEPT ![r] =
                 IF idx'[r] > Len(assets[r]) THEN "open_metrics" ELSE "fetch_metrics"]
    /\ UNCHANGED <<db_assets, db_metrics, all_assets, assets, existing,
                   txn_assets, txn_ins, txn_upd, runs_started>>
    /\ UNCHANGED <<rl_vars, sync_vars, cache_vars, risk_vars, ad_vars, fb_vars, cmc_vars, dx_vars>>

(* async with get_db() as db, at the head of _store_metrics *)
OpenMetrics(r) ==
    /\ epc[r] = "open_metrics"
    /\ \E ok \in BOOLEAN :
          /\ epc' = [epc EXCEPT ![r] = IF ~ok THEN "raised"
                                       ELSE IF all_metrics[r] = <<>> THEN "store_commit"
                                       ELSE "store_select"]
          /\ all_metrics' = [all_metrics EXCEPT ![r] = IF ok THEN @ ELSE <<>>]
    /\ assets' = [assets EXCEPT ![r] = <<>>]
    /\ idx' = [idx EXCEPT ![r] = 1]
    /\ tried' = [tried EXCEPT ![r] = {}]
    /\ failures' = [failures EXCEPT ![r] = {}]
    /\ UNCHANGED <<db_assets, db_metrics, all_assets, existing,
                   txn_assets, txn_ins, txn_upd, runs_started>>
    /\ UNCHANGED <<any_failed, rl_vars, sync_vars, cache_vars, risk_vars, ad_vars, fb_vars, cmc_vars, dx_vars>>

(* _store_metrics is handed a metrics list on an open session *)
CallStoreMetrics(r) ==
    /\ epc[r] = "idle"
    /\ runs_started < MaxStoreCalls
    /\ MayBegin(r)
    /\ \E metrics \in SeqsUpTo(PointsOf(db_assets, Values), MaxPoints) :
          /\ all_metrics' = [all_metrics EXCEPT ![r] = metrics]
          /\ epc' = [epc EXCEPT ![r] = IF metrics = <<>> THEN "store_commit" ELSE "store_select"]
    /\ idx' = [idx EXCEPT ![r] = 1]
    /\ runs_started' = runs_started + 1
    /\ UNCHANGED <<db_assets, db_metrics, all_assets, assets, existing,
                   txn_assets, txn_ins, txn_upd, tried, failures>>
    /\ UNCHANGED <<any_failed, rl_vars, sync_vars, cache_vars, risk_vars, ad_vars, fb_vars, cmc_vars, dx_vars>>

(* a select that misses the rows this session has inserted *)
select_metric_committed(r, k) == Len(db_metrics[k]) > 0

(* what select(AssetMetric).where(key) returns in session r: the committed *)
(* rows and the rows this session has inserted                            *)
select_metric(r, k) == Len(db_metrics[k]) + Len(txn_ins[r][k]) > 0

(* _store_metrics: the select for the current metric *)
StoreMetricSelect(r) ==
    /\ epc[r] = "store_select"
    /\ existing' = [existing EXCEPT ![r] = select_metric(r, KeyOf(all_metrics[r][idx[r]]))]
    /\ epc' = [epc EXCEPT ![r] = "store_write"]
    /\ UNCHANGED <<db_assets, db_metrics, idx, all_assets, assets, all_metrics,
                   txn_assets, txn_ins, txn_upd, tried, failures, runs_started>>
    /\ UNCHANGED <<any_failed, rl_vars, sync_vars, cache_vars, risk_vars, ad_vars, fb_vars, cmc_vars, dx_vars>>

(* _store_metrics: update if the select found a row, insert otherwise; a *)
(* failing statement is logged and the metric skipped                    *)
StoreMetricWrite(r) ==
    /\ epc[r] = "store_write"
    /\ LET p == all_metrics[r][idx[r]]
           k == KeyOf(p)
       IN  \E ok \in BOOLEAN :
             IF ~ok THEN UNCHANGED <<txn_ins, txn_upd>>
             ELSE IF existing[r]
             THEN /\ txn_upd' = [txn_upd EXCEPT ![r][k] =
                                   [n |-> Len(db_metrics[k]), value |-> p.value]]
                  /\ txn_ins' = [txn_ins EXCEPT ![r][k] =
                                   [i \in 1..Len(@) |-> p.value]]
             ELSE /\ txn_ins' = [txn_ins EXCEPT ![r][k] = Append(@, p.value)]
                  /\ UNCHANGED txn_upd
    /\ idx' = [idx EXCEPT ![r] = @ + 1]
    /\ existing' = [existing EXCEPT ![r] = FALSE]
    /\ epc' = [epc EXCEPT ![r] =
                 IF idx[r] + 1 > Len(all_metrics[r]) THEN "store_commit" ELSE "store_select"]
    /\ UNCHANGED <<db_assets, db_metrics, all_assets, assets, all_metrics,
                   txn_assets, tried, failures, runs_started>>
    /\ UNCHANGED <<any_failed, rl_vars, sync_vars, cache_vars, risk_vars, ad_vars, fb_vars, cmc_vars, dx_vars>>

(* the rows of key k once session r has committed *)
committed_rows(r, k) ==
    LET rows == db_metrics[k]
        u == txn_upd[r][k]
    IN  [i \in 1..Len(rows) |-> IF i <= u.n THEN u.value ELSE rows[i]] \o txn_ins[r][k]

(* _store_metrics: db.commit(); then control returns to the caller *)
CommitMetrics(r, then) ==
    /\ epc[r] = "store_commit"
    /\ \E ok \in BOOLEAN :
          /\ db_metrics' = IF ok THEN [k \in Keys |-> committed_rows(r, k)] ELSE db_metrics
          /\ epc' = [epc EXCEPT ![r] = IF ok THEN then ELSE "raised"]
    /\ txn_ins' = [txn_ins EXCEPT ![r] = [k \in Keys |-> <<>>]]
    /\ txn_upd' = [txn_upd EXCEPT ![r] = [k \in Keys |-> NoUpdate]]
    /\ all_metrics' = [all_metrics EXCEPT ![r] = <<>>]
    /\ idx' = [idx EXCEPT ![r] = 0]
    /\ UNCHANGED <<db_assets, all_assets, assets, existing,
                   txn_assets, tried, failures, runs_started>>
    /\ UNCHANGED <<any_failed, rl_vars, sync_vars, cache_vars, risk_vars, ad_vars, fb_vars, cmc_vars, dx_vars>>

(* update_risk_scores: succeeds or raises *)
UpdateRiskScores(r) ==
    /\ epc[r] = "update_risk"
    /\ \E ok \in BOOLEAN : epc' = [epc EXCEPT ![r] = IF ok THEN "completed" ELSE "raised"]
    /\ UNCHANGED <<db_assets, db_metrics, idx, all_assets, assets, all_metrics, existing,
                   txn_assets, txn_ins, txn_upd, tried, failures, runs_started>>
    /\ UNCHANGED <<any_failed, rl_vars, sync_vars, cache_vars, risk_vars, ad_vars, fb_vars, cmc_vars, dx_vars>>

(* run_full_pipeline has returned or raised; the runner is idle again *)
EndRun(r) ==
    /\ epc[r] \in {"completed", "raised", "cancelled"}
    /\ epc' = [epc EXCEPT ![r] = "idle"]
    /\ idx' = [idx EXCEPT ![r] = 0]
    /\ tried' = [tried EXCEPT ![r] = {}]
    /\ failures' = [failures EXCEPT ![r] = {}]
    /\ any_failed' = [any_failed EXCEPT ![r] = FALSE]
    /\ UNCHANGED <<db_assets, db_metrics, all_assets, assets, all_metrics, existing,
                   txn_assets, txn_ins, txn_upd, runs_started>>
    /\ UNCHANGED <<rl_vars, sync_vars, cache_vars, risk_vars, ad_vars, fb_vars, cmc_vars, dx_vars>>

ETLNext ==
    \/ \E r \in Runners : Trigger(r)
    \/ \E r \in Runners : FetchAssets(r)
    \/ \E r \in Runners : OpenAssets(r)
    \/ \E r \in Runners : StoreAsset(r)
    \/ \E r \in Runners : CommitAssets(r)
    \/ \E r \in Runners : LoadAssets(r)
    \/ \E r \in Runners : FetchMetrics(r)
    \/ \E r \in Runners : OpenMetrics(r)
    \/ \E r \in Runners : StoreMetricSelect(r)
    \/ \E r \in Runners : StoreMetricWrite(r)
    \/ \E r \in Runners : CommitMetrics(r, "update_risk")
    \/ \E r \in Runners : UpdateRiskScores(r)
    \/ \E r \in Runners : EndRun(r)

StoreNext ==
    \/ \E r \in Runners : CallStoreMetrics(r)
    \/ \E r \in Runners : StoreMetricSelect(r)
    \/ \E r \in Runners : StoreMetricWrite(r)
    \/ \E r \in Runners : CommitMetrics(r, "completed")
    \/ \E r \in Runners : EndRun(r)

(* ================= CoinMarketCapService.sync_assets_to_db ============= *)
(* quote.get("price") is None *)
NoPrice == 0
Coins == [id : CmcIds, price : {NoPrice} \cup Quotes]

(* listings without a repeated coin *)
Listings ==
    {l \in SeqsUpTo(Coins, Cardinality(CmcIds)) :
        \A i, j \in 1..Len(l) : i # j => l[i].id # l[j].id}

(* get_listings_latest(use_cache = False): raises, or returns data["data"] *)
get_listings_latest ==
    {[raised |-> TRUE, data |-> <<>>]} \cup {[raised |-> FALSE, data |-> l] : l \in Listings}

(* the ids sync_assets_to_db creates: those select(Asset.id) did not return *)
assets_to_create(ls, existing_ids) ==
    {ls[i].id : i \in {j \in 1..Len(ls) : ls[j].id \notin existing_ids}}

(* one price_usd metric per coin that carries a price *)
metrics_to_create(ls) ==
    LET priced == SelectSeq(ls, LAMBDA c : c.price # NoPrice)
    IN  [i \in 1..Len(priced) |->
            [asset_id |-> priced[i].id, metric_type |-> "price_usd",
             timestamp |-> 1, value |-> priced[i].price]]

SyncIdle ==
    /\ spc = "idle"
    /\ sync_assets = {}
    /\ sync_metrics = <<>>

runner_vars == <<epc, idx, all_assets, assets, all_metrics, existing,
                 txn_assets, txn_ins, txn_upd, tried, failures, any_failed>>

(* sync_assets_to_db up to its commit: get_listings_latest raises, returns *)
(* nothing (return 0) or returns the listings; then select(Asset.id) and   *)
(* the loop that builds the objects to add, either of which may raise      *)
SyncCall ==
    /\ spc = "idle"
    /\ runs_started < MaxCycles
    /\ runs_started' = runs_started + 1
    /\ \E o \in get_listings_latest, ok \in BOOLEAN :
          IF o.raised \/ o.data = <<>> \/ ~ok
          THEN UNCHANGED <<spc, sync_assets, sync_metrics>>
          ELSE /\ spc' = "prepared"
               /\ sync_assets' = assets_to_create(o.data, db_assets)
               /\ sync_metrics' = metrics_to_create(o.data)
    /\ UNCHANGED <<db_assets, db_metrics, runner_vars, rl_vars, cache_vars, risk_vars, ad_vars, fb_vars, cmc_vars, dx_vars>>

(* add_all, then db.commit() flushes: the INSERTs of the assets and of the *)
(* metrics are issued in one transaction                                  *)
SyncFlush ==
    /\ spc = "prepared"
    /\ \E ok \in BOOLEAN :
          IF ok
          THEN spc' = "flushed" /\ UNCHANGED <<sync_assets, sync_metrics>>
          ELSE spc' = "idle" /\ sync_assets' = {} /\ sync_metrics' = <<>>
    /\ UNCHANGED <<rl_vars, etl_vars, cache_vars, risk_vars, ad_vars, fb_vars, cmc_vars, dx_vars>>

(* the metric rows of key k once the sync transaction has committed *)
synced_rows(k) ==
    LET mine == SelectSeq(sync_metrics, LAMBDA m : KeyOf(m) = k)
    IN  db_metrics[k] \o [i \in 1..Len(mine) |-> mine[i].value]

(* db.commit(): the transaction commits or is rolled back *)
SyncCommit ==
    /\ spc = "flushed"
    /\ \E ok \in BOOLEAN :
          IF ok
          THEN /\ db_assets' = db_assets \cup sync_assets
               /\ db_metrics' = [k \in Keys |-> synced_rows(k)]
          ELSE UNCHANGED <<db_assets, db_metrics>>
    /\ spc' = "idle"
    /\ sync_assets' = {}
    /\ sync_metrics' = <<>>
    /\ UNCHANGED <<runner_vars, runs_started, rl_vars, cache_vars, risk_vars, ad_vars, fb_vars, cmc_vars, dx_vars>>

SyncNext ==
    \/ SyncCall
    \/ SyncFlush
    \/ SyncCommit

(* ingestion cycles and the CoinMarketCap sync *)
CycleNext ==
    \/ ETLNext
    \/ SyncNext

(* the store once a cycle has persisted the assets *)
StoreInit == db_assets = AssetIds /\ RunnersIdle

RLDefault == rate_limits = configure_limit(60, 5, 10, 600, JitterPct)

(* ============================ cancellation ============================ *)
(* an except Exception of the adapter loop takes the cancellation for a   *)
(* failed adapter and the cycle goes on                                   *)
cancel_target_swallowed(pcv) == IF pcv = "fetch_assets" THEN "open_assets" ELSE "cancelled"

(* where a cycle suspended at pcv goes when its task is cancelled:        *)
(* CancelledError is no Exception, so none of the except clauses of the   *)
(* pipeline, the wrapper or the adapters catches it                       *)
cancel_target(pcv) == "cancelled"

(* ETLScheduler.stop: scheduler.shutdown() cancels the running job; the   *)
(* CancelledError leaves run_full_pipeline and the open session is closed *)
(* without a commit                                                       *)
Cancel(r) ==
    /\ epc[r] \notin {"idle", "completed", "raised", "cancelled"}
    /\ epc' = [epc EXCEPT ![r] = cancel_target(@)]
    /\ IF epc'[r] = "cancelled"
       THEN /\ idx' = [idx EXCEPT ![r] = 0]
            /\ all_assets' = [all_assets EXCEPT ![r] = <<>>]
            /\ assets' = [assets EXCEPT ![r] = <<>>]
            /\ all_metrics' = [all_metrics EXCEPT ![r] = <<>>]
            /\ existing' = [existing EXCEPT ![r] = FALSE]
            /\ txn_assets' = [txn_assets EXCEPT ![r] = {}]
            /\ txn_ins' = [txn_ins EXCEPT ![r] = [k \in Keys |-> <<>>]]
            /\ txn_upd' = [txn_upd EXCEPT ![r] = [k \in Keys |-> NoUpdate]]
       ELSE UNCHANGED <<idx, all_assets, assets, all_metrics, existing,
                        txn_assets, txn_ins, txn_upd>>
    /\ UNCHANGED <<db_assets, db_metrics, tried, failures, any_failed, runs_started>>
    /\ UNCHANGED <<rl_vars, sync_vars, cache_vars, risk_vars, ad_vars, fb_vars, cmc_vars, dx_vars>>

CancelNext ==
    \/ ETLNext
    \/ \E r \in Runners : Cancel(r)

(* ===================== what a cycle reports to its caller ============= *)
(* run_full_pipeline logs "ETL pipeline completed successfully" and the   *)
(* endpoint answers {"status": "success"} once the three steps returned;  *)
(* a step that raises is logged and re-raised                             *)
cycle_result(r) ==
    IF epc[r] = "completed" THEN "success"
    ELSE IF epc[r] = "raised" THEN "raised"
    ELSE "none"

(* =============================== caches =============================== *)
(* MemoryCache, InMemoryCache, cache.supabase.SupabaseCache, RedisCache   *)
(* and adapters.supabase_cache.SupabaseCache                              *)
Backends == {"memory", "inmemory", "supabase", "supabase_mock", "redis", "supabase_adapter"}
Networked == {"supabase", "redis", "supabase_adapter"}

(* cached values: None, a JSON value, a provider's whole response (the    *)
(* dict with "status" and "data"), an object json.dumps rejects           *)
Absent == [kind |-> "none", payload |-> <<>>]
JsonValue(x) == [kind |-> "json", payload |-> x]
NotJson == [kind |-> "object", payload |-> <<>>]
RawKeys == {<<"k1">>, <<"k2">>}
RawValues == {JsonValue(<<"v1">>), NotJson}

(* ttl arguments: None, 0 and a positive number of ticks (100 s each) *)
NoTTL == 0 - 1
TTLs == {NoTTL, 0, 2}
NoExpiry == 0
(* RedisCache(expiration_seconds = 300) *)
RedisExpiration == 3
NoRequest == <<>>
NoEntry == [value |-> Absent, expires_at |-> NoExpiry, ttl |-> NoTTL, set_at |-> 0, req |-> NoRequest]
(* what the last batch or service call returned to its caller *)
NoCall == [op |-> "none", req |-> NoRequest, hit |-> FALSE, raised |-> "", ok |-> FALSE,
           result |-> Absent, many |-> [k \in RawKeys |-> Absent]]

(* <cache>.set(key, value, ttl) at time t for a request req: the entry    *)
(* stored, or NoEntry when the call reports failure. fault: the backend   *)
(* call raises                                                            *)
cache_set(b, value, ttl, t, req, fault) ==
    LET entry(e) == [value |-> value, expires_at |-> e, ttl |-> ttl, set_at |-> t, req |-> req]
    IN  CASE b = "memory" ->
               entry(IF ttl # NoTTL /\ ttl # 0 THEN t + ttl ELSE NoExpiry)
          [] b = "inmemory" ->
               entry(IF ttl # NoTTL THEN t + ttl ELSE NoExpiry)
          [] b = "supabase" ->
               IF fault \/ value.kind = "object" THEN NoEntry
               ELSE entry(IF ttl # NoTTL /\ ttl # 0 THEN t + ttl ELSE NoExpiry)
          [] b = "supabase_mock" ->
               (* MockTable.upsert keeps the dict as it is, in memory *)
               entry(IF ttl # NoTTL /\ ttl # 0 THEN t + ttl ELSE NoExpiry)
          [] b = "supabase_adapter" ->
               IF fault \/ value.kind = "object" THEN NoEntry
               ELSE entry(IF ttl # NoTTL THEN t + ttl ELSE NoExpiry)
          [] b = "redis" ->
               LET exp == IF ttl # NoTTL THEN ttl ELSE RedisExpiration
               IN  IF fault \/ value.kind = "object" \/ exp <= 0 THEN NoEntry
                   ELSE entry(t + exp)

(* whether entry e is gone for a get at time t: the clients compare       *)
(* expires_at < now, the Redis server drops the key when its time is up   *)
expired(b, e, t) ==
    /\ e.expires_at # NoExpiry
    /\ IF b = "redis" THEN e.expires_at <= t ELSE e.expires_at < t

(* <cache>.get(key) at time t, e being the stored entry. fault: the       *)
(* backend call, or the comparison of the stored expiry, raises           *)
cache_get(b, e, t, fault) ==
    IF b \in Networked /\ fault THEN Absent
    ELSE IF expired(b, e, t) THEN Absent
    ELSE e.value

(* adapters.supabase_cache.SupabaseCache.exists(key): a select of the     *)
(* row's key, whatever its expiry; False when the call raises             *)
cache_exists(e, fault) == ~fault /\ e # NoEntry

CacheInit(keys, backends) ==
    /\ backend \in backends
    /\ cache = [k \in keys |-> NoEntry]
    /\ last_call = NoCall

(* set(k, v, ttl) *)
CacheSet ==
    /\ \E k \in RawKeys, v \in RawValues, ttl \in TTLs, fault \in BOOLEAN :
          LET e == cache_set(backend, v, ttl, now, NoRequest, fault)
          IN  cache' = [cache EXCEPT ![k] = IF e = NoEntry THEN @ ELSE e]
    /\ UNCHANGED <<backend, last_call, rl_vars, etl_vars, sync_vars, risk_vars, ad_vars, fb_vars, cmc_vars, dx_vars>>

(* what <cache>.delete(k) leaves of entry e: MockTable.delete() and the  *)
(* execute() after it do not touch the dict of the mock client            *)
cache_delete(b, e, fault) ==
    IF (b \in Networked /\ fault) \/ b = "supabase_mock" THEN e ELSE NoEntry

(* get(k): the clients delete an entry they find expired, Redis has       *)
(* dropped it by itself                                                   *)
CacheGet(k, fault) ==
    /\ cache' = [cache EXCEPT ![k] =
                   IF ~(backend \in Networked /\ fault) /\ expired(backend, @, now)
                   THEN cache_delete(backend, @, FALSE) ELSE @]
    /\ last_call' = [NoCall EXCEPT !.op = "get", !.req = k]
    /\ UNCHANGED <<backend, rl_vars, etl_vars, sync_vars, risk_vars, ad_vars, fb_vars, cmc_vars, dx_vars>>

(* delete(k) *)
CacheDelete ==
    /\ \E k \in RawKeys, fault \in BOOLEAN :
          cache' = [cache EXCEPT ![k] = cache_delete(backend, @, fault)]
    /\ UNCHANGED <<backend, last_call, rl_vars, etl_vars, sync_vars, risk_vars, ad_vars, fb_vars, cmc_vars, dx_vars>>

(* the dicts handed to set_many *)
ItemSets == [RawKeys -> RawValues]

(* RedisCache.set(k, v, ttl) applied to each item of the dict in turn, on *)
(* a backend that answers                                                 *)
set_each(c, items, ttl, t) ==
    [k \in DOMAIN c |->
        LET e == cache_set("redis", items[k], ttl, t, NoRequest, FALSE)
        IN  IF e = NoEntry THEN c[k] ELSE e]

(* RedisCache.set_many: every item is serialized and queued on one        *)
(* pipeline, which is executed at the end; an item json.dumps rejects, or *)
(* a failing execute, leaves the method by the except branch with nothing *)
(* written                                                                *)
set_many_ok(items, ttl, fault) ==
    LET exp == IF ttl # NoTTL THEN ttl ELSE RedisExpiration
    IN  ~fault /\ exp > 0 /\ \A k \in DOMAIN items : items[k].kind # "object"

set_many(c, items, ttl, t, fault) ==
    IF set_many_ok(items, ttl, fault)
    THEN [k \in DOMAIN c |-> cache_set("redis", items[k], ttl, t, NoRequest, FALSE)]
    ELSE c

CacheSetMany(items, ttl, fault) ==
    /\ backend = "redis"
    /\ cache' = set_many(cache, items, ttl, now, fault)
    /\ last_call' = [NoCall EXCEPT !.op = "set_many", !.ok = set_many_ok(items, ttl, fault)]
    /\ UNCHANGED <<backend, rl_vars, etl_vars, sync_vars, risk_vars, ad_vars, fb_vars, cmc_vars, dx_vars>>

(* RedisCache.get_many: one MGET, then the values found are decoded *)
get_many(c, t, fault) ==
    [k \in DOMAIN c |-> IF fault THEN Absent ELSE cache_get("redis", c[k], t, FALSE)]

CacheGetMany(fault) ==
    /\ backend = "redis"
    /\ last_call' = [NoCall EXCEPT !.op = "get_many", !.many = get_many(cache, now, fault)]
    /\ UNCHANGED <<backend, cache, rl_vars, etl_vars, sync_vars, risk_vars, ad_vars, fb_vars, cmc_vars, dx_vars>>

CacheNext ==
    \/ CacheSet
    \/ \E k \in RawKeys, fault \in BOOLEAN : CacheGet(k, fault)
    \/ CacheDelete
    \/ \E items \in ItemSets, ttl \in TTLs, fault \in BOOLEAN : CacheSetMany(items, ttl, fault)
    \/ \E fault \in BOOLEAN : CacheGetMany(fault)
    \/ Tick

(* ------------------ CoinMarketCapService: read-through ---------------- *)
(* the requests of the four cached methods, with every parameter the      *)
(* provider's answer depends on (use_cache is not one of them)            *)
Request(m, symbol, time_period, interval, convert, limit) ==
    [method |-> m, symbol |-> symbol, time_period |-> time_period,
     interval |-> interval, convert |-> convert, limit |-> limit]

Requests ==
    {Request("get_listings_latest", "", "", "", "USD", 100)}
    \cup {Request("get_quotes_latest", "BTC", "", "", "USD", 0)}
    \cup {Request("get_historical_quotes", "BTC", "24h", i, "USD", 0) : i \in {"1h", "1d"}}
    \cup {Request("get_quote", "BTC", "", "", "USD", 0)}

(* str.lower() *)
lower(str) ==
    CASE str = "BTC" -> "btc"
      [] str = "USD" -> "usd"
      [] OTHER -> str

(* the key each method reads and writes *)
cache_key(req) ==
    CASE req.method = "get_listings_latest" ->
           <<"coinmarketcap", "listings", req.convert, req.limit>>
      [] req.method = "get_quotes_latest" ->
           <<"coinmarketcap", "quotes", req.symbol, req.convert>>
      [] req.method = "get_historical_quotes" ->
           <<"coinmarketcap", "historical", req.symbol, req.time_period, req.convert>>
      [] req.method = "get_quote" ->
           <<"quote", lower(req.symbol), lower(req.convert)>>

(* expiry_seconds of the set_* helpers, in ticks of 100 s *)
expiry_seconds(req) ==
    IF req.method = "get_historical_quotes" THEN 36 ELSE 3

(* what the miss path hands to the cache and what it returns: the whole  *)
(* response the adapter got for the request (data), or a part of it       *)
miss_stored(req) ==
    [kind |-> IF req.method = "get_quote" THEN "data.data" ELSE "data", payload |-> req]

miss_result(req) ==
    [kind |-> IF req.method = "get_quotes_latest" THEN "data.data[symbol]" ELSE "data.data",
     payload |-> req]

(* one call of a cached method. get_fault, set_fault: the cache call      *)
(* fails inside SupabaseCache; api_ok: the adapter answers                *)
ServiceCall(req, use_cache, get_fault, set_fault, api_ok) ==
    LET k == cache_key(req)
        cached == IF use_cache
                  THEN cache_get("supabase_adapter", cache[k], now, get_fault)
                  ELSE Absent
        (* SupabaseCache.get deletes the entry it finds expired *)
        kept == IF use_cache /\ ~get_fault /\ expired("supabase_adapter", cache[k], now)
                THEN [cache EXCEPT ![k] = NoEntry]
                ELSE cache
        call == [NoCall EXCEPT !.op = req.method, !.req = req]
    IN  /\ backend = "supabase_adapter"
        /\ IF cached # Absent
           THEN /\ last_call' = [call EXCEPT !.hit = TRUE, !.ok = TRUE, !.result = cached]
                /\ cache' = kept
           ELSE IF ~api_ok
           THEN /\ last_call' = [call EXCEPT !.raised = "adapter"]
                /\ cache' = kept
           ELSE IF req.method = "get_quote"
           THEN (* self.cache.set(cache_key, ..., ttl=300): SupabaseCache.set  *)
                (* has no parameter ttl, the call raises TypeError             *)
                /\ last_call' = [call EXCEPT !.raised = "cache"]
                /\ cache' = kept
           ELSE LET e == cache_set("supabase_adapter", miss_stored(req),
                                   expiry_seconds(req), now, req, set_fault)
                IN  /\ last_call' = [call EXCEPT !.ok = TRUE, !.result = miss_result(req)]
                    /\ cache' = [kept EXCEPT ![k] = IF e = NoEntry THEN @ ELSE e]
        /\ UNCHANGED <<backend, rl_vars, etl_vars, sync_vars, risk_vars, ad_vars, fb_vars, cmc_vars, dx_vars>>

(* time passes, long enough for the entries of 300 s to expire *)
ServiceTick ==
    /\ now < StartTime + MaxServiceTime
    /\ Tick

ServiceNext ==
    \/ \E req \in Requests, use_cache, get_fault, set_fault, api_ok \in BOOLEAN :
          ServiceCall(req, use_cache, get_fault, set_fault, api_ok)
    \/ ServiceTick

(* ========================== RiskScoringEngine ========================= *)
(* Scores are counted in hundredths (1.0 is 100); prices are whole        *)
(* numbers small enough for twice a daily return to be whole; volumes     *)
(* are counted in millions of dollars.                                    *)
NoScore == 0 - 1

(* a table without a score for the tiers it does not list *)
base_scores_strict(tier) ==
    CASE tier = "CASH_CORE" -> 100
      [] tier = "INCOME" -> 200
      [] tier = "INCOME_PLUS" -> 250
      [] tier = "BALANCED" -> 300
      [] tier = "GROWTH" -> 400
      [] tier = "AGGRESSIVE" -> 500
      [] OTHER -> 0

(* self.base_scores.get(asset.risk_tier, 3.0) *)
base_scores(tier) ==
    CASE tier = "CASH_CORE" -> 100
      [] tier = "INCOME" -> 200
      [] tier = "INCOME_PLUS" -> 250
      [] tier = "BALANCED" -> 300
      [] tier = "GROWTH" -> 400
      [] tier = "AGGRESSIVE" -> 500
      [] OTHER -> 300

RECURSIVE SumSeq(_)
SumSeq(q) == IF q = <<>> THEN 0 ELSE Head(q) + SumSeq(Tail(q))

(* _calculate_volatility_score. returns holds twice np.diff(prices) /     *)
(* prices[:-1]; a zero price makes a return inf or nan, np.std nan, and   *)
(* nan is below no threshold. x is (2n)^2 times the variance, and         *)
(* volatility < th is compared as 365 * variance < th^2, th^2 in 1e-6     *)
volatility_score(prices) ==
    LET n == Len(prices) - 1
        returns == [i \in 1..n |-> (2 * (prices[i + 1] - prices[i])) \div prices[i]]
        x == n * SumSeq([i \in 1..n |-> returns[i] * returns[i]])
               - SumSeq(returns) * SumSeq(returns)
        below(th2) == 365 * x * 10000 < (th2 * n * n) \div 25
    IN  IF Len(prices) < 2 THEN 100
        ELSE IF \E i \in 1..n : prices[i] = 0 THEN 500
        ELSE IF below(25) THEN 100
        ELSE IF below(400) THEN 200
        ELSE IF below(2500) THEN 250
        ELSE IF below(10000) THEN 300
        ELSE IF below(40000) THEN 400
        ELSE 500

(* _calculate_drawdown_score. A first price of zero makes the first       *)
(* drawdown 0/0, and np.max of an array holding nan is nan; th in 1e-3    *)
drawdown_score(prices) ==
    LET running_max(i) == CHOOSE m \in {prices[j] : j \in 1..i} :
                              \A j \in 1..i : prices[j] <= m
        below(th) == \A i \in 1..Len(prices) :
                         1000 * (running_max(i) - prices[i]) < th * running_max(i)
    IN  IF Len(prices) < 2 THEN 100
        ELSE IF prices[1] = 0 THEN 500
        ELSE IF below(1) THEN 100
        ELSE IF below(10) THEN 200
        ELSE IF below(30) THEN 250
        ELSE IF below(100) THEN 300
        ELSE IF below(200) THEN 400
        ELSE 500

(* _calculate_liquidity_score: avg_volume > th as sum > th * len *)
liquidity_score(volumes) ==
    LET above(th) == SumSeq(volumes) > th * Len(volumes)
    IN  IF volumes = <<>> THEN 400
        ELSE IF above(1000) THEN 100
        ELSE IF above(100) THEN 200
        ELSE IF above(10) THEN 300
        ELSE IF above(1) THEN 400
        ELSE 500

(* the weighted sum of the four components, clamped to [1.0, 5.0] *)
composite_score(h) ==
    LET c == (40 * volatility_score(h.prices) + 30 * drawdown_score(h.prices)
              + 20 * liquidity_score(h.volumes) + 10 * base_scores(h.tier)) \div 100
    IN  Min(Max(c, 100), 500)

(* the composite score whatever the length of the history *)
calculate_asset_risk_score_composite(h) == composite_score(h)

(* calculate_asset_risk_score for an asset row of tier h.tier whose       *)
(* price_usd and volume_24h rows in the window are h.prices and h.volumes *)
calculate_asset_risk_score(h) ==
    IF Len(h.prices) < 7 THEN base_scores(h.tier) ELSE composite_score(h)

(* asset rows and histories: a known tier of each kind and one the engine *)
(* does not list; price series of the given lengths; no, one or two       *)
(* volume rows                                                            *)
Histories(lens) ==
    [tier : {"CASH_CORE", "INCOME_PLUS", "AGGRESSIVE", "MOON_SHOT"},
     prices : UNION {[1..n -> {0, 1, 2}] : n \in lens},
     volumes : {<<>>, <<1>>, <<2000>>, <<1, 2000>>}]

NoHistory == [tier |-> "", prices |-> <<>>, volumes |-> <<>>]

RiskInit(inputs) ==
    /\ risk_input \in inputs
    /\ risk_result = NoScore
    /\ risk_pc = "idle"
    /\ risk_idx = 0
    /\ risk_scores = [a \in AssetIds |-> NoScore]
    /\ risk_failed = {}
    /\ db_risk = [a \in AssetIds |-> NoScore]

(* one call of calculate_asset_risk_score *)
Score ==
    /\ risk_result = NoScore
    /\ risk_input # NoHistory
    /\ risk_result' = calculate_asset_risk_score(risk_input)
    /\ UNCHANGED <<risk_input, risk_pc, risk_idx, risk_scores, risk_failed, db_risk>>
    /\ UNCHANGED <<rl_vars, etl_vars, sync_vars, cache_vars, ad_vars, fb_vars, cmc_vars, dx_vars>>

(* update_asset_risk_scores is called; calculate_risk_scores opens a     *)
(* session and selects the asset rows                                     *)
RiskStart ==
    /\ risk_pc = "idle"
    /\ \E ok \in BOOLEAN : risk_pc' = IF ok THEN "scoring" ELSE "raised"
    /\ risk_idx' = 1
    /\ risk_scores' = [a \in AssetIds |-> NoScore]
    /\ risk_failed' = {}
    /\ UNCHANGED <<risk_input, risk_result, db_risk>>
    /\ UNCHANGED <<rl_vars, etl_vars, sync_vars, cache_vars, ad_vars, fb_vars, cmc_vars, dx_vars>>

(* one turn of the loop over the assets: the score is entered in          *)
(* risk_scores, or the exception is logged; the loop ends with the rows   *)
ScoreAsset ==
    /\ risk_pc = "scoring"
    /\ risk_idx <= Len(AssetOrder)
    /\ \E h \in Histories(0..1), raised \in BOOLEAN :
          LET a == AssetOrder[risk_idx]
          IN  /\ risk_scores' = IF raised THEN risk_scores
                                ELSE [risk_scores EXCEPT ![a] = calculate_asset_risk_score(h)]
              /\ risk_failed' = IF raised THEN risk_failed \cup {a} ELSE risk_failed
              /\ risk_idx' = next_index(risk_idx, raised)
    /\ UNCHANGED <<risk_input, risk_result, risk_pc, db_risk>>
    /\ UNCHANGED <<rl_vars, etl_vars, sync_vars, cache_vars, ad_vars, fb_vars, cmc_vars, dx_vars>>

(* a run that also writes the default score to the assets it has no       *)
(* score for                                                              *)
updated_scores_default(written) ==
    [a \in AssetIds |-> IF risk_scores[a] # NoScore THEN risk_scores[a] ELSE 300]

(* the rows after the commit: the loop runs over risk_scores.items(), so   *)
(* only scored assets get an UPDATE, and only those in written took it     *)
updated_scores(written) ==
    [a \in AssetIds |->
        IF a \in written /\ risk_scores[a] # NoScore THEN risk_scores[a] ELSE db_risk[a]]

(* the second session: one UPDATE per scored asset, each of which may     *)
(* raise and be logged, then the commit; risk_scores is returned          *)
UpdateScores ==
    /\ risk_pc = "scoring"
    /\ risk_idx > Len(AssetOrder)
    /\ \E opened, committed \in BOOLEAN, written \in SUBSET AssetIds :
          /\ risk_pc' = IF opened /\ committed THEN "returned" ELSE "raised"
          /\ db_risk' = IF opened /\ committed THEN updated_scores(written) ELSE db_risk
    /\ UNCHANGED <<risk_input, risk_result, risk_idx, risk_scores, risk_failed>>
    /\ UNCHANGED <<rl_vars, etl_vars, sync_vars, cache_vars, ad_vars, fb_vars, cmc_vars, dx_vars>>

RiskNext ==
    \/ RiskStart
    \/ ScoreAsset
    \/ UpdateScores

(* ===================== adapters and REST workers ====================== *)
AdapterKinds == {AdapterNames[i] : i \in 1..Len(AdapterNames)}
Workers == {"coinmarketcap", "hyperliquid", "coinbase"}
(* the ids a caller may ask an adapter for *)
RequestIds ==
    UNION {{Catalog(a)[i] : i \in 1..Len(Catalog(a))} : a \in AdapterKinds} \cup {"unknown"}
in_asset_metadata(a, asset_id) ==
    \E i \in 1..Len(asset_metadata(a)) : asset_metadata(a)[i] = asset_id

(* an upstream request: the host it goes to and how it is dispatched: by   *)
(* an httpx client directly, or inside rate_limiter.with_retry(service)    *)
Direct(host) == [host |-> host, via |-> "httpx", service |-> ""]
Limited(host, service) == [host |-> host, via |-> "rate_limiter", service |-> service]

(* the requests get_asset_data issues, in order, when none of them fails   *)
upstream_requests(a) ==
    CASE a = "circle"     -> <<Direct("coinmarketcap"), Direct("circle")>>
      [] a = "tether"     -> <<Direct("coinmarketcap"), Direct("tether")>>
      [] a = "ondo"       -> <<Direct("coinmarketcap")>>
      [] a = "matrixdock" -> <<>>

(* the "id" of the snapshot get_asset_data builds *)
snapshot_id(a, asset_id) ==
    CASE a = "circle" -> "usdc"
      [] a = "tether" -> "usdt"
      [] OTHER        -> asset_id

(* get_asset_data(asset_id) of adapter a when its first n_ok requests      *)
(* succeed: ondo and matrixdock check the id against asset_metadata,       *)
(* circle and tether do not look at it                                     *)
get_asset_data(a, asset_id, n_ok) ==
    LET reqs == upstream_requests(a)
    IN  IF a \in {"ondo", "matrixdock"} /\ ~in_asset_metadata(a, asset_id)
        THEN [kind |-> "adapter", name |-> a, asset_id |-> asset_id,
              outcome |-> "unsupported", id |-> "", requests |-> <<>>]
        ELSE IF n_ok < Len(reqs)
        THEN [kind |-> "adapter", name |-> a, asset_id |-> asset_id,
              outcome |-> "failed", id |-> "", requests |-> SubSeq(reqs, 1, n_ok + 1)]
        ELSE [kind |-> "adapter", name |-> a, asset_id |-> asset_id,
              outcome |-> "snapshot", id |-> snapshot_id(a, asset_id), requests |-> reqs]

(* the most requests one call through n nested retry layers can send,    *)
(* each layer running its callee up to max_retries + 1 times              *)
request_budget(layers, max_retries) ==
    IF layers = 0 THEN 1 ELSE (max_retries + 1) * request_budget(layers - 1, max_retries)

(* a call on a worker made with service_name w whose first `fails`        *)
(* requests fail with a network error.  RESTWorker.get is with_retry      *)
(* ("default") around _request, itself with_retry("default") around a     *)
(* loop that sends again by itself; a subclass method such as             *)
(* get_listings_latest is with_retry(w) around get.  Every layer retries  *)
(* max_retries times, and the first request that succeeds ends the call.  *)
(* Each run of the loop passes the "default" gate once, its resends do    *)
(* not                                                                    *)
worker_get(w, decorators, max_retries, fails) ==
    LET budget == request_budget(decorators + 1, max_retries)
        sent == IF fails < budget THEN fails + 1 ELSE budget
    IN  [kind |-> "worker", name |-> w, asset_id |-> "",
         outcome |-> IF fails < budget THEN "response" ELSE "raised", id |-> "",
         requests |-> [i \in 1..sent |->
                         IF (i - 1) % (max_retries + 1) = 0
                         THEN Limited(w, "default") ELSE Direct(w)]]

AdapterIdle == ad_log = <<>>

(* one call of an adapter's get_asset_data *)
GetAssetData(a, asset_id) ==
    /\ Len(ad_log) < MaxAdapterCalls
    /\ \E n_ok \in 0..Len(upstream_requests(a)) :
          ad_log' = Append(ad_log, get_asset_data(a, asset_id, n_ok))
    /\ UNCHANGED <<rl_vars, etl_vars, sync_vars, cache_vars, risk_vars, fb_vars, cmc_vars, dx_vars>>

(* one call of a REST worker's get (two decorators) or of a subclass     *)
(* method (three); the retry counts, 5 in the code, are MaxRetriesBound   *)
WorkerGet(w) ==
    /\ Len(ad_log) < MaxAdapterCalls
    /\ \E decorators \in {2, 3} :
       \E fails \in 0..request_budget(decorators + 1, MaxRetriesBound) :
          ad_log' = Append(ad_log, worker_get(w, decorators, MaxRetriesBound, fails))
    /\ UNCHANGED <<rl_vars, etl_vars, sync_vars, cache_vars, risk_vars, fb_vars, cmc_vars, dx_vars>>

AdapterNext ==
    \/ \E a \in AdapterKinds, asset_id \in RequestIds : GetAssetData(a, asset_id)
    \/ \E w \in Workers : WorkerGet(w)

(* ============ SupabaseCache with in-memory fallback =================== *)
(* cache/supabase_cache.py, for one key.  A row or entry is its value and  *)
(* its expires_at (0 for None); fault: the Supabase call of this           *)
(* operation raises                                                        *)
FbValues == {"v1", "v2"}
FbNoRow == [value |-> "", expires_at |-> NoExpiry]
NoGet == "-"
fb_item(value, ttl, t) ==
    [value |-> value, expires_at |-> IF ttl = NoTTL THEN NoExpiry ELSE t + ttl]
fb_expired(e, t) == e.expires_at # NoExpiry /\ e.expires_at < t

(* get(key): the table first; the memory entry when the table call raised *)
(* or found no row.  The result and the two stores afterwards             *)
fb_get(table, memory, t, fault) ==
    IF ~fault /\ table # FbNoRow
    THEN IF fb_expired(table, t)
         THEN [result |-> "", table |-> FbNoRow, memory |-> memory]
         ELSE [result |-> table.value, table |-> table, memory |-> memory]
    ELSE IF memory # FbNoRow
    THEN IF fb_expired(memory, t)
         THEN [result |-> "", table |-> table, memory |-> FbNoRow]
         ELSE [result |-> memory.value, table |-> table, memory |-> memory]
    ELSE [result |-> "", table |-> table, memory |-> memory]

FallbackIdle ==
    /\ fb_table = FbNoRow
    /\ memory_cache = FbNoRow
    /\ fb_latest = ""
    /\ fb_result = NoGet

(* set(key, value, ttl): upsert and return True; when the upsert raises,   *)
(* the entry goes to memory_cache and True is returned as well            *)
FbSet(value, ttl, fault) ==
    /\ IF fault
       THEN memory_cache' = fb_item(value, ttl, now) /\ UNCHANGED fb_table
       ELSE fb_table' = fb_item(value, ttl, now) /\ UNCHANGED memory_cache
    /\ fb_latest' = value
    /\ fb_result' = NoGet
    /\ UNCHANGED <<rl_vars, etl_vars, sync_vars, cache_vars, risk_vars, ad_vars, cmc_vars, dx_vars>>

(* delete(key): success when the table delete did not raise or the key    *)
(* was in memory_cache                                                    *)
FbDelete(fault) ==
    /\ fb_table' = IF fault THEN fb_table ELSE FbNoRow
    /\ memory_cache' = FbNoRow
    /\ fb_latest' = IF ~fault \/ memory_cache # FbNoRow THEN "" ELSE fb_latest
    /\ fb_result' = NoGet
    /\ UNCHANGED <<rl_vars, etl_vars, sync_vars, cache_vars, risk_vars, ad_vars, cmc_vars, dx_vars>>

FbGet(fault) ==
    /\ LET r == fb_get(fb_table, memory_cache, now, fault)
       IN  /\ fb_result' = r.result
           /\ fb_table' = r.table
           /\ memory_cache' = r.memory
    /\ UNCHANGED fb_latest
    /\ UNCHANGED <<rl_vars, etl_vars, sync_vars, cache_vars, risk_vars, ad_vars, cmc_vars, dx_vars>>

FallbackNext ==
    \/ \E value \in FbValues, ttl \in {NoTTL, 2}, fault \in BOOLEAN : FbSet(value, ttl, fault)
    \/ \E fault \in BOOLEAN : FbDelete(fault)
    \/ \E fault \in BOOLEAN : FbGet(fault)
    \/ Tick

(* ============== CoinMarketCapAdapter's own rate limit ================= *)
(* adapters/coinmarketcap.py.  request_timestamps is kept as the number   *)
(* of timestamps appended (cmc_sent) and the number of them that have     *)
(* left the 60 s window (cmc_old); timestamp i is the i-th appended.      *)
RATE_LIMIT == 30

(* the timestamps the comprehension of _wait_for_rate_limit keeps *)
request_timestamps == cmc_sent - cmc_old

CmcIdle ==
    /\ cmc_sent = 0
    /\ cmc_old = 0
    /\ cmc_pc = [t \in Tasks |-> "idle"]
    /\ cmc_target = [t \in Tasks |-> 0]

(* _request, back from _wait_for_rate_limit, appends the timestamp and    *)
(* sends the request; whether it fails or not, the task is back at the    *)
(* top of the loop or has returned                                        *)
cmc_send(t) ==
    /\ cmc_sent' = cmc_sent + 1
    /\ cmc_pc' = [cmc_pc EXCEPT ![t] = "idle"]

(* the 0.5 s spacing after the limit check: a sleep when the previous     *)
(* request was recent, none otherwise                                     *)
cmc_spacing(t) ==
    \/ cmc_send(t)
    \/ /\ cmc_sent > 0
       /\ cmc_pc' = [cmc_pc EXCEPT ![t] = "spacing"]
       /\ UNCHANGED cmc_sent

(* _wait_for_rate_limit up to its first await: at the limit, sleep until  *)
(* the oldest timestamp has left the window                               *)
CmcWait(t) ==
    /\ cmc_pc[t] = "idle"
    /\ cmc_sent < MaxCmcRequests
    /\ IF request_timestamps >= RATE_LIMIT
       THEN /\ cmc_pc' = [cmc_pc EXCEPT ![t] = "limit_sleep"]
            /\ cmc_target' = [cmc_target EXCEPT ![t] = cmc_old + 1]
            /\ UNCHANGED cmc_sent
       ELSE cmc_spacing(t) /\ UNCHANGED cmc_target
    /\ UNCHANGED cmc_old
    /\ UNCHANGED <<rl_vars, etl_vars, sync_vars, cache_vars, risk_vars, ad_vars, fb_vars, dx_vars>>

(* the sleep for the limit is over: nothing is checked again *)
CmcLimitSleepDone(t) ==
    /\ cmc_pc[t] = "limit_sleep"
    /\ cmc_old >= cmc_target[t]
    /\ cmc_spacing(t)
    /\ UNCHANGED <<cmc_old, cmc_target>>
    /\ UNCHANGED <<rl_vars, etl_vars, sync_vars, cache_vars, risk_vars, ad_vars, fb_vars, dx_vars>>

CmcSpacingDone(t) ==
    /\ cmc_pc[t] = "spacing"
    /\ cmc_send(t)
    /\ UNCHANGED <<cmc_old, cmc_target>>
    /\ UNCHANGED <<rl_vars, etl_vars, sync_vars, cache_vars, risk_vars, ad_vars, fb_vars, dx_vars>>

(* time passes: the oldest timestamp of the window becomes 60 s old *)
CmcExpire ==
    /\ cmc_old < cmc_sent
    /\ cmc_old' = cmc_old + 1
    /\ UNCHANGED <<cmc_sent, cmc_pc, cmc_target>>
    /\ UNCHANGED <<rl_vars, etl_vars, sync_vars, cache_vars, risk_vars, ad_vars, fb_vars, dx_vars>>

CmcNext ==
    \/ \E t \in Tasks : CmcWait(t)
    \/ \E t \in Tasks : CmcLimitSleepDone(t)
    \/ \E t \in Tasks : CmcSpacingDone(t)
    \/ CmcExpire

(* ======================= DydxWorker (WebSocket) ======================= *)
(* workers/dydx_worker.py with cache/memory_cache.py.  A connection is    *)
(* open or None; ws_sent is the set of markets whose subscribe messages   *)
(* went out on the connection that is open now; listener is the position  *)
(* of the task start() creates; dydx_cache is the set of keys             *)
(* InMemoryCache holds; processed is the record built from the last       *)
(* channel_data message.                                                  *)
Markets == {"BTC-USD", "ETH-USD"}
Channels == {"v4_markets", "v4_orderbook", "v4_trades"}
None == "None"
max_reconnect_delay == 60

(* contents of a channel_data message: whether it carries anything for    *)
(* the market, and the price and volume (size) fields: <<x>> for the      *)
(* number x, NoField when the field is missing                            *)
NoField == <<>>
Payloads == [present : BOOLEAN, price : {NoField, <<7>>}, volume : {NoField, <<3>>}]

NoRecord == [channel |-> None, market |-> None, has_price |-> TRUE, has_volume |-> TRUE,
             price |-> NoField, volume |-> NoField]

DydxIdle ==
    /\ running = FALSE
    /\ websocket = None
    /\ subscribed_markets = {}
    /\ reconnect_delay = 1
    /\ ws_sent = {}
    /\ listener = "none"
    /\ dydx_cache = {}
    /\ processed = NoRecord

(* calling an async def creates a coroutine; its body runs only when the  *)
(* coroutine is awaited                                                   *)
coroutine(awaited, before, after) == IF awaited THEN after ELSE before

(* subscribe_to_markets: a market already in subscribed_markets is        *)
(* skipped; a market whose send raises is logged and not added            *)
subscribe_to_markets(markets, subscribed, failed) ==
    LET new == (markets \ subscribed) \ failed
    IN  [sent |-> new, subscribed |-> subscribed \cup new]

(* the record _process_markets_data and _process_trades_data build:       *)
(* float(x.get(field, 0)); the orderbook record has neither field         *)
processed_data(channel, market, payload) ==
    [channel |-> channel, market |-> market,
     has_price |-> payload.price # NoField, has_volume |-> payload.volume # NoField,
     price |-> IF channel = "v4_orderbook" THEN NoField
               ELSE IF payload.price = NoField THEN <<0>> ELSE payload.price,
     volume |-> IF channel = "v4_orderbook" THEN NoField
                ELSE IF payload.volume = NoField THEN <<0>> ELSE payload.volume]

(* start(): connect, subscribe, create the listener task *)
DydxStart(markets, failed, ok) ==
    /\ ~running
    /\ IF ok
       THEN LET s == subscribe_to_markets(markets, subscribed_markets, failed)
            IN  /\ running' = TRUE
                /\ websocket' = "open"
                /\ reconnect_delay' = 1
                /\ subscribed_markets' = s.subscribed
                /\ ws_sent' = s.sent
                /\ listener' = "listening"
       ELSE UNCHANGED <<running, websocket, reconnect_delay, subscribed_markets, ws_sent, listener>>
    /\ UNCHANGED <<dydx_cache, processed>>
    /\ UNCHANGED <<rl_vars, etl_vars, sync_vars, cache_vars, risk_vars, ad_vars, fb_vars, cmc_vars>>

(* subscribe_to_markets called on the running worker *)
DydxSubscribe(markets, failed) ==
    /\ websocket # None
    /\ LET s == subscribe_to_markets(markets, subscribed_markets, failed)
       IN  /\ subscribed_markets' = s.subscribed
           /\ ws_sent' = ws_sent \cup s.sent
    /\ UNCHANGED <<running, websocket, reconnect_delay, listener, dydx_cache, processed>>
    /\ UNCHANGED <<rl_vars, etl_vars, sync_vars, cache_vars, risk_vars, ad_vars, fb_vars, cmc_vars>>

(* listen() receives a channel_data message and process_message handles   *)
(* it: markets and trades return early on empty contents; cache.set and   *)
(* cache.get are called without await                                     *)
DydxReceive(channel, market, payload) ==
    /\ running
    /\ websocket # None
    /\ listener = "listening"
    /\ IF payload.present \/ channel = "v4_orderbook"
       THEN /\ processed' = processed_data(channel, market, payload)
            /\ dydx_cache' = coroutine(FALSE, dydx_cache, dydx_cache \cup {<<channel, market>>})
       ELSE UNCHANGED <<processed, dydx_cache>>
    /\ UNCHANGED <<running, websocket, reconnect_delay, subscribed_markets, ws_sent, listener>>
    /\ UNCHANGED <<rl_vars, etl_vars, sync_vars, cache_vars, risk_vars, ad_vars, fb_vars, cmc_vars>>

(* listen(): recv raises ConnectionClosed, or the ping times out, and the *)
(* listener enters reconnect(), which closes and drops the connection     *)
DydxConnectionClosed ==
    /\ running
    /\ websocket # None
    /\ listener = "listening"
    /\ websocket' = None
    /\ ws_sent' = {}
    /\ listener' = "reconnecting"
    /\ UNCHANGED <<running, reconnect_delay, subscribed_markets, dydx_cache, processed>>
    /\ UNCHANGED <<rl_vars, etl_vars, sync_vars, cache_vars, risk_vars, ad_vars, fb_vars, cmc_vars>>

(* one round of reconnect()'s loop: sleep, double the delay, connect; on  *)
(* success resubscribe list(subscribed_markets) and break, after which    *)
(* listen() breaks out of its loop and the task ends                      *)
DydxReconnect(ok) ==
    /\ running
    /\ websocket = None
    /\ listener = "reconnecting"
    /\ IF ok
       THEN LET s == subscribe_to_markets(subscribed_markets, subscribed_markets, {})
            IN  /\ websocket' = "open"
                /\ reconnect_delay' = 1
                /\ subscribed_markets' = s.subscribed
                /\ ws_sent' = s.sent
                /\ listener' = "none"
       ELSE /\ reconnect_delay' = Min(reconnect_delay * 2, max_reconnect_delay)
            /\ UNCHANGED <<websocket, subscribed_markets, ws_sent, listener>>
    /\ UNCHANGED <<running, dydx_cache, processed>>
    /\ UNCHANGED <<rl_vars, etl_vars, sync_vars, cache_vars, risk_vars, ad_vars, fb_vars, cmc_vars>>

(* stop(); the listener task sees running = False and ends *)
DydxStop ==
    /\ running' = FALSE
    /\ websocket' = None
    /\ subscribed_markets' = {}
    /\ ws_sent' = {}
    /\ listener' = "none"
    /\ UNCHANGED <<reconnect_delay, dydx_cache, processed>>
    /\ UNCHANGED <<rl_vars, etl_vars, sync_vars, cache_vars, risk_vars, ad_vars, fb_vars, cmc_vars>>

DydxNext ==
    \/ \E markets \in SUBSET Markets, failed \in SUBSET Markets, ok \in BOOLEAN :
          DydxStart(markets, failed, ok)
    \/ \E markets \in SUBSET Markets, failed \in SUBSET Markets : DydxSubscribe(markets, failed)
    \/ \E channel \in Channels, market \in Markets, payload \in Payloads :
          DydxReceive(channel, market, payload)
    \/ DydxConnectionClosed
    \/ \E ok \in BOOLEAN : DydxReconnect(ok)
    \/ DydxStop

(* ============================ specifications ========================== *)
(* RateLimiter: consecutive, non-overlapping calls *)
InitRLSeq == RLInit(FALSE) /\ ETLIdle /\ SyncIdle /\ CacheInit({}, {"memory"}) /\ RiskInit({NoHistory}) /\ AdapterIdle /\ FallbackIdle /\ CmcIdle /\ DydxIdle
SpecRLSeq == InitRLSeq /\ [][RLNext]_vars
(* RateLimiter: callers may overlap *)
InitRL == RLInit(TRUE) /\ ETLIdle /\ SyncIdle /\ CacheInit({}, {"memory"}) /\ RiskInit({NoHistory}) /\ AdapterIdle /\ FallbackIdle /\ CmcIdle /\ DydxIdle
SpecRL == InitRL /\ [][RLNext]_vars
(* ingestion cycles that may overlap (scheduler job and run_now) *)
InitETL == RLDefault /\ RLIdle(TRUE) /\ ETLIdle /\ SyncIdle /\ CacheInit({}, {"memory"}) /\ RiskInit({NoHistory}) /\ AdapterIdle /\ FallbackIdle /\ CmcIdle /\ DydxIdle
SpecETL == InitETL /\ [][ETLNext]_vars
(* ingestion cycles one after the other, with the CoinMarketCap sync *)
InitCycle == RLDefault /\ RLIdle(FALSE) /\ ETLIdle /\ SyncIdle /\ CacheInit({}, {"memory"}) /\ RiskInit({NoHistory}) /\ AdapterIdle /\ FallbackIdle /\ CmcIdle /\ DydxIdle
SpecCycle == InitCycle /\ [][CycleNext]_vars
(* _store_metrics called by one session at a time *)
InitStoreSeq == RLDefault /\ RLIdle(FALSE) /\ StoreInit /\ SyncIdle /\ CacheInit({}, {"memory"}) /\ RiskInit({NoHistory}) /\ AdapterIdle /\ FallbackIdle /\ CmcIdle /\ DydxIdle
SpecStoreSeq == InitStoreSeq /\ [][StoreNext]_vars
(* _store_metrics called by two sessions that may overlap *)
InitStore == RLDefault /\ RLIdle(TRUE) /\ StoreInit /\ SyncIdle /\ CacheInit({}, {"memory"}) /\ RiskInit({NoHistory}) /\ AdapterIdle /\ FallbackIdle /\ CmcIdle /\ DydxIdle
SpecStore == InitStore /\ [][StoreNext]_vars
(* ingestion cycles one after the other that may be cancelled *)
SpecCancel == InitCycle /\ [][CancelNext]_vars
(* calculate_asset_risk_score applied to an asset row and its history *)
InitScore ==
    RLDefault /\ RLIdle(FALSE) /\ ETLIdle /\ SyncIdle /\ CacheInit({}, {"memory"})
    /\ RiskInit(Histories({0, MaxPrices - 1, MaxPrices})) /\ AdapterIdle /\ FallbackIdle /\ CmcIdle /\ DydxIdle
SpecScore == InitScore /\ [][Score]_vars
(* one run of update_asset_risk_scores over the asset rows *)
SpecRisk == InitCycle /\ [][RiskNext]_vars
(* the operations of one cache, of any of the classes, as time passes *)
InitCache ==
    RLDefault /\ RLIdle(FALSE) /\ ETLIdle /\ SyncIdle /\ CacheInit(RawKeys, Backends)
    /\ RiskInit({NoHistory}) /\ AdapterIdle /\ FallbackIdle /\ CmcIdle /\ DydxIdle
SpecCache == InitCache /\ [][CacheNext]_vars

(* ============================ RateLimiter claims ====================== *)
Done(t) == pc[t] \in {"returned", "raised"}

(* C1: consecutive, non-overlapping wrapped calls for a service: any two   *)
(* successive dispatches are at least one interval apart, so N dispatches  *)
(* span at least (N-1) * interval, the first call after configuration      *)
(* included.                                                              *)
C1_SpacingSequential ==
    (~concurrent /\ n_dispatched >= 2) =>
        /\ rate_limits.last_call_time - prev_dispatch >= rate_limits.interval
        /\ rate_limits.last_call_time - first_dispatch
              >= (n_dispatched - 1) * rate_limits.interval

(* three dispatches, the latest of which had to wait out the interval *)
C1_Witness ==
    /\ ~concurrent
    /\ n_dispatched >= 3
    /\ rate_limits.last_call_time - prev_dispatch = rate_limits.interval

(* C2: with overlapping callers of one service, no two dispatches are      *)
(* less than one interval apart.                                          *)
C2_SpacingConcurrent ==
    (concurrent /\ n_dispatched >= 2) =>
        rate_limits.last_call_time - prev_dispatch >= rate_limits.interval

(* C3: if every attempt of a call failed retryably, the wrapper ends by    *)
(* raising, never by returning.                                           *)
C3_ExhaustedRaises ==
    \A t \in Tasks : (Done(t) /\ all_retryable[t]) => pc[t] = "raised"

(* C4: a failure outside the retryable class is never followed by a        *)
(* retry: the wrapper is done right after it.                             *)
C4_NonRetryableNotRetried ==
    \A t \in Tasks : NonRetryableFailure(last_outcome[t]) => Done(t)

(* C5: after a 429 response carrying Retry-After: s the wrapper sleeps at  *)
(* least s before the next attempt.                                       *)
C5_RetryAfterHonoured ==
    [][\A t \in Tasks :
        ( /\ pc[t] = "in_flight"
          /\ pc'[t] = "backoff"
          /\ last_outcome'[t].status_code = 429
          /\ last_outcome'[t].retry_after > 0 )
        => wake'[t] >= now + last_outcome'[t].retry_after]_vars

(* ======================== pipeline and store claims =================== *)
Writing(r) ==
    epc[r] \in {"store_assets", "commit_assets", "store_select", "store_write", "store_commit"}

(* C6: two ingestion cycles never run concurrently: while one cycle is   *)
(* writing to the store no other cycle is writing.                       *)
C6_NoInterleavedWrites ==
    \A r, u \in Runners : (r # u /\ Writing(r)) => ~Writing(u)

VisibleRows(r, k) == Len(db_metrics[k]) + Len(txn_ins[r][k])
HasWritten(r, k) == txn_ins[r][k] # <<>> \/ txn_upd[r][k] # NoUpdate

C8_OneRowPerKey ==
    concurrent => \A k \in Keys : Len(db_metrics[k]) <= 1

(* C9: every metric point that is stored, written in an open            *)
(* transaction or collected for storing references an asset whose row   *)
(* is already committed.                                                 *)
C9_CommittedBeforeWritten ==
    /\ \A k \in Keys :
          (db_metrics[k] # <<>> \/ \E r \in Runners : txn_ins[r][k] # <<>>)
              => k.asset_id \in db_assets
    /\ \A r \in Runners : \A i \in 1..Len(all_metrics[r]) :
          all_metrics[r][i].asset_id \in db_assets
    /\ spc = "flushed" =>
          \A i \in 1..Len(sync_metrics) : sync_metrics[i].asset_id \in db_assets

(* C9 amended: an asset's row is committed before a pipeline cycle      *)
(* writes any of its metric points, and before or in the same           *)
(* transaction as the metric points sync_assets_to_db writes; every      *)
(* committed metric point references a committed asset.                  *)
C9_MetricsReferenceAssets ==
    /\ \A k \in Keys :
          (db_metrics[k] # <<>> \/ \E r \in Runners : txn_ins[r][k] # <<>>)
              => k.asset_id \in db_assets
    /\ \A r \in Runners : \A i \in 1..Len(all_metrics[r]) :
          all_metrics[r][i].asset_id \in db_assets
    /\ spc = "flushed" =>
          \A i \in 1..Len(sync_metrics) :
              sync_metrics[i].asset_id \in db_assets \cup sync_assets

(* a pipeline cycle and a sync have both committed metric points, the    *)
(* sync's for an asset it created in the same transaction                *)
C9_Witness ==
    /\ \E k \in Keys : k.asset_id \in AssetIds /\ db_metrics[k] # <<>>
    /\ \E k \in Keys : k.asset_id \in CmcIds /\ db_metrics[k] # <<>>
    /\ db_assets # AssetIds \cup CmcIds

AfterFetchAssets ==
    {"open_assets", "store_assets", "commit_assets", "load_assets", "fetch_metrics", "open_metrics"}

(* C10: within a cycle every adapter is attempted whatever failed before *)
(* it, and every asset read from the store is attempted whatever asset   *)
(* failed before it.                                                     *)
C10_FailuresDoNotStopLoops ==
    \A r \in Runners :
        /\ epc[r] \in AfterFetchAssets
              => \A i \in 1..Len(Registry) : Registry[i] \in tried[r]
        /\ epc[r] = "open_metrics"
              => \A i \in 1..Len(assets[r]) : assets[r][i] \in tried[r]

(* the first adapter failed and the next one was attempted; an asset     *)
(* failed and a later asset of the same adapter was attempted            *)
C10_Witness ==
    \E r \in Runners :
        /\ epc[r] = "open_metrics"
        /\ Registry[1] \in failures[r]
        /\ Registry[2] \in tried[r]
        /\ \E i, j \in 1..Len(assets[r]) :
              /\ i < j
              /\ assets[r][i] \in failures[r]
              /\ assets[r][j] \in tried[r]
              /\ get_adapter_for_asset(assets[r][i]) = get_adapter_for_asset(assets[r][j])


(* ========================= cycle result claims ======================== *)
(* C11: a finished cycle reports "success" if and only if no adapter and  *)
(* no asset failed during it.                                             *)
C11_SuccessIffNoFailure ==
    \A r \in Runners :
        epc[r] = "completed" => (cycle_result(r) = "success" <=> ~any_failed[r])


(* C12: in a cycle where the first adapter failed and the second one      *)
(* returned every asset of its catalog, each of those assets is written   *)
(* to the store by _store_assets, and the finished cycle does not report  *)
(* plain success.                                                         *)
C12_OtherAdapterPersisted ==
    \A r \in Runners :
        /\ ( /\ epc[r] = "commit_assets"
             /\ Registry[1] \in failures[r]
             /\ all_assets[r] = Catalog(Registry[2]) )
           => \A i \in 1..Len(all_assets[r]) : all_assets[r][i] \in txn_assets[r]
        /\ (epc[r] = "completed" /\ any_failed[r]) => cycle_result(r) # "success"


(* C13: run_full_pipeline never ends by raising, whatever failed inside   *)
(* the cycle.                                                             *)
C13_CycleNeverRaises ==
    \A r \in Runners : cycle_result(r) # "raised"


C15_SetGetThenExpire ==
    \A k \in RawKeys :
        LET e == cache[k]
        IN  e # NoEntry =>
              /\ now = e.set_at => cache_get(backend, e, now, FALSE) = e.value
              /\ (e.ttl # NoTTL /\ now > e.set_at + e.ttl)
                    => cache_get(backend, e, now, FALSE) = Absent


(* C19: an entry written by set with no TTL never expires: as long as it  *)
(* is the stored entry (not overwritten, deleted or cleared) get on a     *)
(* healthy backend returns its value, at any later time                   *)
C19_NoTtlNeverExpires ==
    \A k \in RawKeys :
        LET e == cache[k]
        IN  (e # NoEntry /\ e.ttl = NoTTL)
              => cache_get(backend, e, now, FALSE) = e.value


(* C20: on a backend that answers, set_many(items, ttl) leaves the cache  *)
(* as set(k, v, ttl) applied to each item would, and reports success      *)
(* exactly when every one of those sets would, also when an item cannot   *)
(* be serialized; get_many returns for every key what get(k) returns      *)
C20_BatchAsSequential ==
    [][ /\ \A items \in ItemSets, ttl \in TTLs :
              CacheSetMany(items, ttl, FALSE)
                => /\ cache' = set_each(cache, items, ttl, now)
                   /\ last_call'.ok =
                         (\A k \in DOMAIN items :
                             cache_set("redis", items[k], ttl, now, NoRequest, FALSE) # NoEntry)
        /\ CacheGetMany(FALSE)
              => \A k \in RawKeys : last_call'.many[k] = cache_get("redis", cache[k], now, FALSE)
      ]_vars

(* the cached methods of CoinMarketCapService over one SupabaseCache *)
InitService ==
    RLDefault /\ RLIdle(FALSE) /\ ETLIdle /\ SyncIdle
    /\ CacheInit({cache_key(req) : req \in Requests}, {"supabase_adapter"})
    /\ RiskInit({NoHistory}) /\ AdapterIdle /\ FallbackIdle /\ CmcIdle /\ DydxIdle
SpecService == InitService /\ [][ServiceNext]_vars

(* C16: no call of a cached service method fails because of the cache: a  *)
(* call raises only when the adapter's request itself failed              *)
C16_CacheNeverFailsFetch ==
    last_call.raised # "cache"

(* C17: a call answered from the cache returns what the miss path that    *)
(* populated the entry returned                                           *)
C17_HitEqualsMiss ==
    last_call.hit
      => last_call.result = miss_result(cache[cache_key(last_call.req)].req)

(* C18: a call is never answered from an entry that was populated by a    *)
(* request with other result-affecting parameters                         *)
C18_NoSharedEntry ==
    last_call.hit
      => cache[cache_key(last_call.req)].req = last_call.req


(* C21: a get that finds an expired entry, on a backend that answers,     *)
(* removes the entry from the backing store, for every backend            *)
C21_ExpiredReadRemoved ==
    [][\A k \in RawKeys :
          (CacheGet(k, FALSE) /\ expired(backend, cache[k], now))
            => cache'[k] = NoEntry]_vars


(* C22: every score the engine returns or stores lies in [1.0, 5.0], for  *)
(* every history and tier, the insufficient-history path and a tier the   *)
(* engine does not list included                                          *)
C22_ScoreInRange ==
    /\ risk_result # NoScore => risk_result \in 100..500
    /\ \A a \in AssetIds :
          /\ risk_scores[a] # NoScore => risk_scores[a] \in 100..500
          /\ db_risk[a] # NoScore => db_risk[a] \in 100..500

C22_Witness ==
    /\ risk_result # NoScore
    /\ risk_input.tier = "MOON_SHOT"
    /\ Len(risk_input.prices) < 7

C24_ConstantSeriesBestCase ==
    LET h == risk_input
    IN  ( /\ risk_result # NoScore
          /\ Len(h.prices) >= 7
          /\ \A i \in 1..Len(h.prices) : h.prices[i] = h.prices[1]
          /\ h.volumes # <<>>
          /\ SumSeq(h.volumes) > 1000 * Len(h.volumes) )
          => /\ volatility_score(h.prices) = 100
             /\ drawdown_score(h.prices) = 100
             /\ liquidity_score(h.volumes) = 100
             /\ risk_result <= base_scores(h.tier)
             /\ h.tier = "CASH_CORE" => risk_result = 100


(* C25: a failure while scoring one asset does not stop the scoring of    *)
(* the others: the run returns a score for every asset whose scoring did  *)
(* not fail and for no other                                              *)
C25_FailuresSkipped ==
    risk_pc = "returned"
      => \A a \in AssetIds : (risk_scores[a] # NoScore) <=> (a \notin risk_failed)

C25_Witness ==
    /\ risk_pc = "returned"
    /\ AssetOrder[1] \in risk_failed
    /\ \E a \in AssetIds : risk_scores[a] # NoScore /\ db_risk[a] = risk_scores[a]


(* =========================== retry delay claims ======================= *)
(* RateLimiter whose service was configured with any of a range of retry  *)
(* counts, base delays, maximum delays and jitter fractions (none of      *)
(* which configure_limit validates), one caller at a time                 *)
DelayConfigs ==
    { configure_limit(cpm, mr, bd, md, j) :
        cpm \in {300}, mr \in {0 - 1, MaxRetriesBound + 1},
        bd \in {0, 1, 4}, md \in {6}, j \in {0, JitterPct, 100} }
InitDelay ==
    /\ rate_limits \in DelayConfigs
    /\ RLIdle(FALSE) /\ ETLIdle /\ SyncIdle /\ CacheInit({}, {"memory"})
    /\ RiskInit({NoHistory}) /\ AdapterIdle /\ FallbackIdle /\ CmcIdle /\ DydxIdle
SpecDelay == InitDelay /\ [][RLNext]_vars

(* C30: the wait before retry k (k = 0 for the first retry) lies in       *)
(* [d(1 - j), d(1 + j)] with d = min(max_delay, base_delay * 2^k), for     *)
(* every configured base delay, maximum delay and jitter fraction         *)
C30_RetryDelayWithinJitter ==
    [][\A t \in Tasks :
          (pc[t] = "in_flight" /\ pc'[t] = "backoff")
            => LET d == Min(rate_limits.max_delay,
                            rate_limits.base_delay * Pow2(attempt[t]))
                   w == wake'[t] - now
               IN  /\ 100 * w >= (100 - rate_limits.jitter) * d
                   /\ 100 * w <= (100 + rate_limits.jitter) * d]_vars



(* ============================ asset row claims ======================== *)
(* C28: no step of an ingestion cycle, of its scoring step or of the      *)
(* CoinMarketCap sync removes an asset row from the store                 *)
C28_AssetRowsKept == [][db_assets \subseteq db_assets']_vars

(* a later cycle has committed its assets over rows that were there       *)
C28_Witness ==
    /\ runs_started >= 2
    /\ db_assets # {}
    /\ \E r \in Runners : epc[r] = "load_assets"



(* C29: _store_assets does not go past an asset whose write failed unless *)
(* the failure is recorded for the cycle's result: it stays on the asset   *)
(* for the retry, or reports it as a partial failure                       *)
C29_FailedWriteRetriedOrReported ==
    [][\A r \in Runners :
          (epc[r] = "store_assets" /\ idx'[r] # idx[r]
           /\ all_assets[r][idx[r]] \notin txn_assets'[r])
            => all_assets[r][idx[r]] \in failures'[r]]_vars



(* ============================ adapter claims ========================== *)
(* calls of the adapters' get_asset_data and of the REST workers' get *)
SpecAdapter == InitCycle /\ [][AdapterNext]_vars

(* C26: get_asset_data of every adapter fails with the unsupported-asset   *)
(* error for an id that is not in the adapter's catalog; no adapter        *)
(* returns a snapshot for such an id                                       *)
C26_UnlistedIdUnsupported ==
    \A i \in 1..Len(ad_log) :
        (ad_log[i].kind = "adapter" /\ ~in_asset_metadata(ad_log[i].name, ad_log[i].asset_id))
          => ad_log[i].outcome = "unsupported"

(* C27: every upstream request of an adapter or worker is dispatched       *)
(* through the RateLimiter under that adapter's own service name           *)
C27_RequestsRateLimited ==
    \A i \in 1..Len(ad_log) : \A j \in 1..Len(ad_log[i].requests) :
        /\ ad_log[i].requests[j].via = "rate_limiter"
        /\ ad_log[i].requests[j].service = ad_log[i].name



(* C40: the wrapper never ends by raising the RuntimeError that follows    *)
(* its retry loop, for every max_retries configure_limit accepts           *)
C40_NoUnexpectedEnd ==
    \A t \in Tasks : pc[t] = "raised" => last_outcome[t].exc # "RuntimeError"



C39_ExistsIffGetReturns ==
    backend = "supabase_adapter"
      => \A k \in RawKeys :
            cache_exists(cache[k], FALSE) <=> cache_get(backend, cache[k], now, FALSE) # Absent



(* ======================= fallback cache claims ======================== *)
(* set, delete and get of the Supabase cache with in-memory fallback,      *)
(* each Supabase call working or raising, as time passes                   *)
SpecFallback == InitCycle /\ [][FallbackNext]_vars

(* C33: a get never returns a value other than the one of the most recent  *)
(* successful set, and returns none after a later successful delete        *)
C33_GetNeverStale ==
    fb_result \notin {NoGet, ""} => fb_result = fb_latest



(* C34: one call on a REST worker sends at most max_retries + 1 requests   *)
(* to the provider before it returns or raises                             *)
C34_RequestsWithinRetries ==
    \A i \in 1..Len(ad_log) :
        ad_log[i].kind = "worker" => Len(ad_log[i].requests) <= MaxRetriesBound + 1



(* ===================== CoinMarketCap adapter claims =================== *)
(* requests of two tasks that share one CoinMarketCapAdapter *)
SpecCmc == InitCycle /\ [][CmcNext]_vars

(* C37: the adapter never has more than RATE_LIMIT requests dispatched     *)
(* within one 60-second window                                             *)
C37_WindowWithinLimit == request_timestamps <= RATE_LIMIT

(* the dYdX worker: start, messages, connection losses, reconnects, stop *)
SpecDydx == InitCycle /\ [][DydxNext]_vars

(* C35: on an open connection, the subscribe messages of every market in  *)
(* subscribed_markets have been sent on that connection, after a          *)
(* reconnect as after start                                               *)
C35_ResubscribedAfterReconnect == websocket # None => subscribed_markets \subseteq ws_sent

(* C36: whenever the worker is running and connected, a listener is       *)
(* receiving, so that a message arriving on the connection is processed   *)
C36_ListenerWhileConnected == running /\ websocket # None => listener = "listening"

(* C32: after a payload of a channel for a market has been processed, the *)
(* cache holds an entry under the key of that channel and market          *)
C32_ProcessedPayloadCached ==
    processed # NoRecord => <<processed.channel, processed.market>> \in dydx_cache

(* C31: a price or volume field the provider's message lacks is absent    *)
(* in the normalized record, never a number                               *)
C31_MissingFieldStaysAbsent ==
    processed.channel \in {"v4_markets", "v4_trades"} =>
        /\ ~processed.has_price => processed.price = NoField
        /\ ~processed.has_volume => processed.volume = NoField

====
